---------------------------- MODULE Spec2Model ----------------------------
(***************************************************************************)
(* Model of github.com/voidint/g: the Version value type, the Collection   *)
(* sort and the Finder (version/version.go, version/finder.go).            *)
(*                                                                         *)
(* Go strings are modelled as sequences of one-character strings, so that  *)
(* strings.Contains, strings.Index, strings.HasPrefix and the parsers of   *)
(* the semver library are computed as the code computes them.              *)
(***************************************************************************)
EXTENDS Integers, Sequences, FiniteSets, TLC

(***************************************************************************)
(* Strings                                                                 *)
(***************************************************************************)

Digits == <<"0", "1", "2", "3", "4", "5", "6", "7", "8", "9">>

\* The characters in ascending byte order (Go compares strings bytewise).
Ascii ==
  <<" ", "*", "+", ",", "-", ".",
    "0", "1", "2", "3", "4", "5", "6", "7", "8", "9",
    "<", "=", ">",
    "A", "B", "C", "D", "E", "F", "G", "H", "I", "J", "K", "L", "M",
    "N", "O", "P", "Q", "R", "S", "T", "U", "V", "W", "X", "Y", "Z",
    "^",
    "a", "b", "c", "d", "e", "f", "g", "h", "i", "j", "k", "l", "m",
    "n", "o", "p", "q", "r", "s", "t", "u", "v", "w", "x", "y", "z",
    "|", "~">>

Range(s) == {s[i] : i \in 1..Len(s)}

DigitSet == Range(Digits)

UpperSet == {Ascii[i] : i \in 20..45}

LowerSet == {Ascii[i] : i \in 47..72}

Ord(c) == CHOOSE i \in 1..Len(Ascii) : Ascii[i] = c

\* s[from..to] with 1-based inclusive bounds; empty when from > to.
Slice(s, from, to) == [i \in 1..(IF to >= from THEN to - from + 1 ELSE 0) |-> s[from + i - 1]]

\* s[n:] of Go: the string without its first n characters.
Drop(s, n) == Slice(s, n + 1, Len(s))

\* s[:n] of Go.
Take(s, n) == Slice(s, 1, n)

\* Whether sub occurs in s at the 0-based index i.
OccursAt(s, sub, i) ==
  i + Len(sub) <= Len(s) /\ \A k \in 1..Len(sub) : s[i + k] = sub[k]

\* strings.HasPrefix
HasPrefix(s, p) == OccursAt(s, p, 0)

\* strings.HasSuffix
HasSuffix(s, p) == Len(p) <= Len(s) /\ OccursAt(s, p, Len(s) - Len(p))

\* The 0-based index of the first occurrence of sub in s at or after i,
\* -1 when there is none.
RECURSIVE IndexFrom(_, _, _)
IndexFrom(s, sub, i) ==
  IF i + Len(sub) > Len(s) THEN -1
  ELSE IF OccursAt(s, sub, i) THEN i
  ELSE IndexFrom(s, sub, i + 1)

\* strings.Index: the 0-based index of the first occurrence, -1 when absent.
Index(s, sub) == IndexFrom(s, sub, 0)

\* strings.Contains
Contains(s, sub) == Index(s, sub) >= 0

\* The length of the longest prefix of s made of characters of S.
Span(s, S) ==
  IF \A i \in 1..Len(s) : s[i] \in S
  THEN Len(s)
  ELSE (CHOOSE i \in 1..Len(s) : s[i] \notin S /\ \A j \in 1..(i - 1) : s[j] \in S) - 1

\* strings.Split(s, sep) for a one-character separator.
RECURSIVE Split(_, _)
Split(s, sep) ==
  LET n == Span(s, Range(Ascii) \ {sep})
  IN  IF n = Len(s) THEN <<s>> ELSE <<Take(s, n)>> \o Split(Drop(s, n + 1), sep)

\* The bytewise order s < o of Go strings.
RECURSIVE StrLess(_, _)
StrLess(s, o) ==
  IF o = <<>> THEN FALSE
  ELSE IF s = <<>> THEN TRUE
  ELSE IF s[1] # o[1] THEN Ord(s[1]) < Ord(o[1])
  ELSE StrLess(Tail(s), Tail(o))

\* strconv.ParseUint(s, 10, 64) of a non-empty string of digits.
RECURSIVE ParseUint(_)
ParseUint(s) ==
  IF s = <<>> THEN 0
  ELSE 10 * ParseUint(Take(s, Len(s) - 1)) + (Ord(s[Len(s)]) - Ord("0"))

IsNumber(s) == s # <<>> /\ Range(s) \subseteq DigitSet


Str_v == <<"v">>

\* The empty Go string.
Empty == <<>>

(***************************************************************************)
(* github.com/Masterminds/semver/v3: versions                              *)
(***************************************************************************)

\* The characters of a prerelease or metadata identifier: [0-9A-Za-z-].
Allowed == DigitSet \cup UpperSet \cup LowerSet \cup {"-"}

\* The characters of a version segment of a constraint: [0-9|x|X|\*].
Wild == DigitSet \cup {"|", "x", "X", "*"}

\* The length of an optional group (\.[W]+)? at the head of r: 0 when absent.
DotPart(r, W) ==
  IF Len(r) >= 2 /\ r[1] = "." /\ r[2] \in W THEN 1 + Span(Drop(r, 1), W) ELSE 0

\* Whether s is [0-9A-Za-z-]+(\.[0-9A-Za-z-]+)*
IsIdentList(s) ==
  \A k \in 1..Len(Split(s, ".")) :
    /\ Split(s, ".")[k] # Empty
    /\ Range(Split(s, ".")[k]) \subseteq Allowed

\* The tail of a version after its segments m1, m2, m3: (-pre)?(\+meta)?$,
\* rest being cut at its first "+" (at the 0-based index plus, if any).
MatchTail(m1, m2, m3, rest, plus) ==
  [ok   |-> /\ m1 # Empty
            /\ \/ plus = 0
               \/ rest = Empty
               \/ /\ rest[1] = "-"
                  /\ IsIdentList(Slice(rest, 2, IF plus < 0 THEN Len(rest) ELSE plus))
            /\ plus < 0 \/ IsIdentList(Drop(rest, plus + 1)),
   m1   |-> m1,
   m2   |-> m2,
   m3   |-> m3,
   pre  |-> Slice(rest, 2, IF plus < 0 THEN Len(rest) ELSE plus),
   meta |-> IF plus < 0 THEN Empty ELSE Drop(rest, plus + 1)]

\* The third segment (\.[W]+)? at the head of r2, absent when the second is.
MatchPatch(m1, m2, r2, n3, W) ==
  MatchTail(m1, m2, Take(r2, n3), Drop(r2, n3), Index(Drop(r2, n3), <<"+">>))

\* The second segment (\.[W]+)? at the head of r1.
MatchMinor(m1, r1, n2, W) ==
  MatchPatch(m1, Take(r1, n2), Drop(r1, n2),
             IF n2 = 0 THEN 0 ELSE DotPart(Drop(r1, n2), W), W)

\* The first segment ([W]+) at the head of s0.
MatchMajor(s0, n1, W) ==
  MatchMinor(Take(s0, n1), Drop(s0, n1), DotPart(Drop(s0, n1), W), W)

\* The submatches of ^v?([W]+)(\.[W]+)?(\.[W]+)?(-pre)?(\+meta)?$ on s:
\* the three segments (the last two with their dot), the prerelease and
\* the metadata (without "-" and "+").
MatchVersion(s, W) ==
  MatchMajor(IF HasPrefix(s, Str_v) THEN Drop(s, 1) ELSE s,
             Span(IF HasPrefix(s, Str_v) THEN Drop(s, 1) ELSE s, W), W)

\* validatePrerelease: a numeric identifier must not start with 0.
ValidPrerelease(pre) ==
  \A k \in 1..Len(Split(pre, ".")) :
    LET p == Split(pre, ".")[k]
    IN  ~(IsNumber(p) /\ Len(p) > 1 /\ p[1] = "0")

NoVersion == [ok |-> FALSE, major |-> 0, minor |-> 0, patch |-> 0, pre |-> Empty]

\* The version of the submatches m of versionRegex.
VersionOf(m) ==
  IF ~m.ok \/ (m.pre # Empty /\ ~ValidPrerelease(m.pre))
  THEN NoVersion
  ELSE [ok    |-> TRUE,
        major |-> ParseUint(m.m1),
        minor |-> IF m.m2 = Empty THEN 0 ELSE ParseUint(Drop(m.m2, 1)),
        patch |-> IF m.m3 = Empty THEN 0 ELSE ParseUint(Drop(m.m3, 1)),
        pre   |-> m.pre]

\* semver.NewVersion: the parsed version, or ok = FALSE for an error.
NewVersion(v) == VersionOf(MatchVersion(v, DigitSet))

\* comparePrePart
ComparePrePart(s, o) ==
  IF s = o THEN 0
  ELSE IF s = Empty THEN -1
  ELSE IF o = Empty THEN 1
  ELSE IF ~IsNumber(o) /\ ~IsNumber(s) THEN (IF StrLess(o, s) THEN 1 ELSE -1)
  ELSE IF ~IsNumber(o) THEN -1
  ELSE IF ~IsNumber(s) THEN 1
  ELSE IF ParseUint(s) > ParseUint(o) THEN 1 ELSE -1

\* comparePrerelease: part by part, a missing part being the empty string.
RECURSIVE ComparePartsFrom(_, _, _)
ComparePartsFrom(sp, op, i) ==
  IF i > Len(sp) /\ i > Len(op) THEN 0
  ELSE IF (IF i <= Len(sp) THEN sp[i] ELSE Empty) = (IF i <= Len(op) THEN op[i] ELSE Empty)
  THEN ComparePartsFrom(sp, op, i + 1)
  ELSE ComparePrePart(IF i <= Len(sp) THEN sp[i] ELSE Empty,
                      IF i <= Len(op) THEN op[i] ELSE Empty)

ComparePrerelease(v, o) == ComparePartsFrom(Split(v, "."), Split(o, "."), 1)

CompareSegment(a, b) == IF a < b THEN -1 ELSE IF a > b THEN 1 ELSE 0

\* Version.Compare: -1, 0 or 1.
Compare(v, o) ==
  IF v.major # o.major THEN CompareSegment(v.major, o.major)
  ELSE IF v.minor # o.minor THEN CompareSegment(v.minor, o.minor)
  ELSE IF v.patch # o.patch THEN CompareSegment(v.patch, o.patch)
  ELSE IF v.pre = Empty /\ o.pre = Empty THEN 0
  ELSE IF v.pre = Empty THEN 1
  ELSE IF o.pre = Empty THEN -1
  ELSE ComparePrerelease(v.pre, o.pre)

\* Version.LessThan
LessThan(v, o) == Compare(v, o) < 0

(***************************************************************************)
(* github.com/Masterminds/semver/v3: constraints                           *)
(***************************************************************************)

\* The comparison operators of a constraint (constraintOps).
Ops ==
  {Empty, <<"=">>, <<"!", "=">>, <<">">>, <<"<">>, <<">", "=">>, <<"=", ">">>,
   <<"<", "=">>, <<"=", "<">>, <<"~">>, <<"~", ">">>, <<"^">>}

OpChars == {"=", "!", ">", "<", "~", "^"}

SkipSpaces(s) == Drop(s, Span(s, {" "}))

TrimSpaces(s) ==
  LET t == SkipSpaces(s)
      back == {n \in 0..Len(t) : \A i \in (n + 1)..Len(t) : t[i] = " "}
  IN  Take(t, CHOOSE n \in back : \A k \in back : n <= k)

\* The characters a version token of a constraint is read from.
TokenChars == Range(Ascii) \ ({" ", ","} \cup OpChars)

IsX(x) == x \in {<<"x">>, <<"*">>, <<"X">>}

NoConstraint ==
  [ok |-> FALSE, op |-> Empty, con |-> NoVersion,
   minorDirty |-> FALSE, patchDirty |-> FALSE, dirty |-> FALSE]

\* strings.TrimPrefix(x, ".")
TrimDot(x) == IF x # Empty /\ x[1] = "." THEN Drop(x, 1) ELSE x

\* The constraint of an operator, the parsed version con and the dirty
\* flags.
ConstraintOf(ok, op, con, xMajor, xMinor, xPatch) ==
  IF ~ok \/ ~con.ok
  THEN NoConstraint
  ELSE [ok |-> TRUE, op |-> op, con |-> con,
        minorDirty |-> xMinor, patchDirty |-> xPatch,
        dirty |-> xMajor \/ xMinor \/ xPatch]

\* The body of parseConstraint on the submatches m of the token tok: a
\* segment that is x, X, * or absent makes the constraint dirty from there
\* on, and the version compared with has zeros from there on.
ConstraintFrom(op, tok, m, m6, xMajor, xMinor, xPatch) ==
  ConstraintOf(m.ok, op,
               NewVersion(IF xMajor THEN <<"0", ".", "0", ".", "0">> \o m6
                          ELSE IF xMinor THEN m.m1 \o <<".", "0", ".", "0">> \o m6
                          ELSE IF xPatch THEN m.m1 \o m.m2 \o <<".", "0">> \o m6
                          ELSE tok),
               xMajor, xMinor, xPatch)

DirtyFrom(op, tok, m, xMajor, xMinor) ==
  ConstraintFrom(op, tok, m, IF m.pre = Empty THEN Empty ELSE <<"-">> \o m.pre,
                 xMajor, xMinor,
                 ~xMajor /\ ~xMinor /\ (IsX(TrimDot(m.m3)) \/ m.m3 = Empty))

ParseMatched(op, tok, m, xMajor) ==
  DirtyFrom(op, tok, m, xMajor, ~xMajor /\ (IsX(TrimDot(m.m2)) \/ m.m2 = Empty))

ParseSubmatches(op, tok, m) == ParseMatched(op, tok, m, IsX(m.m1) \/ m.m1 = Empty)

\* parseConstraint, on the operator and the version token matched by
\* constraintRegex.
ParseConstraint(op, tok) == ParseSubmatches(op, tok, MatchVersion(tok, Wild))

\* One "and" group: validConstraintRegex and findConstraintRegex on a segment
\* between "||": comparators separated by white space or a comma.
RECURSIVE ParseGroup(_)

\* A comparator c followed by the parsed rest of its group.
Cons(c, rest) == [ok |-> rest.ok, cs |-> IF rest.ok THEN <<c>> \o rest.cs ELSE <<>>]

\* After the comparator c come nsp spaces and then s4: the end, or a
\* separator (white space or a comma) and the next comparator.
AfterComparator(op, c, nsp, s4) ==
  IF op \notin Ops \/ ~c.ok THEN [ok |-> FALSE, cs |-> <<>>]
  ELSE IF s4 = Empty THEN [ok |-> TRUE, cs |-> <<c>>]
  ELSE IF s4[1] = "," THEN Cons(c, ParseGroup(Drop(s4, 1)))
  ELSE IF nsp = 0 THEN [ok |-> FALSE, cs |-> <<>>]
  ELSE Cons(c, ParseGroup(s4))

AfterToken(op, tok, s3) ==
  AfterComparator(op, ParseConstraint(op, tok), Span(s3, {" "}), SkipSpaces(s3))

AfterOp(op, s2) ==
  AfterToken(op, Take(s2, Span(s2, TokenChars)), Drop(s2, Span(s2, TokenChars)))

ParseGroup(s) ==
  AfterOp(Take(SkipSpaces(s), Span(SkipSpaces(s), OpChars)),
          SkipSpaces(Drop(SkipSpaces(s), Span(SkipSpaces(s), OpChars))))

\* strings.Split(c, "||")
RECURSIVE SplitOr(_)
SplitOr(s) ==
  LET i == Index(s, <<"|", "|">>)
  IN  IF i < 0 THEN <<s>> ELSE <<Take(s, i)>> \o SplitOr(Drop(s, i + 2))

\* rewriteRange: "A - B" becomes ">= A, <= B ". The expressions of this
\* model hold at most one range and nothing beside it.
RewriteRange(c) ==
  LET i == Index(c, <<" ", "-", " ">>)
      a == TrimSpaces(Take(c, i))
      b == TrimSpaces(Drop(c, i + 3))
  IN  IF i >= 0 /\ MatchVersion(a, Wild).ok /\ MatchVersion(b, Wild).ok
      THEN <<">", "=", " ">> \o a \o <<",", " ", "<", "=", " ">> \o b \o <<" ">>
      ELSE c

\* The "or" groups gs, when every one of them parsed.
ConstraintsOf(gs) ==
  IF \A k \in 1..Len(gs) : gs[k].ok
  THEN [ok |-> TRUE, constraints |-> [k \in 1..Len(gs) |-> gs[k].cs]]
  ELSE [ok |-> FALSE, constraints |-> <<>>]

\* The segments between "||", each parsed as an "and" group.
ParseGroups(ors) == ConstraintsOf([k \in 1..Len(ors) |-> ParseGroup(ors[k])])

\* semver.NewConstraint: the "or" groups of "and"ed comparators, or
\* ok = FALSE for "improper constraint".
NewConstraint(c) == ParseGroups(SplitOr(RewriteRange(c)))

\* The test at the head of every comparison: a prerelease version is not
\* matched by a comparator that names no prerelease.
SkipsPrerelease(v, c) == v.pre # Empty /\ c.con.pre = Empty

\* constraintTilde
ConstraintTilde(v, c) ==
  IF SkipsPrerelease(v, c) THEN FALSE
  ELSE IF LessThan(v, c.con) THEN FALSE
  ELSE IF c.con.major = 0 /\ c.con.minor = 0 /\ c.con.patch = 0
          /\ ~c.minorDirty /\ ~c.patchDirty THEN TRUE
  ELSE IF v.major # c.con.major THEN FALSE
  ELSE IF v.minor # c.con.minor /\ ~c.minorDirty THEN FALSE
  ELSE TRUE

\* constraintTildeOrEqual
ConstraintTildeOrEqual(v, c) ==
  IF SkipsPrerelease(v, c) THEN FALSE
  ELSE IF c.dirty THEN ConstraintTilde(v, c)
  ELSE Compare(v, c.con) = 0

\* constraintCaret
ConstraintCaret(v, c) ==
  IF SkipsPrerelease(v, c) THEN FALSE
  ELSE IF LessThan(v, c.con) THEN FALSE
  ELSE IF c.con.major > 0 \/ c.minorDirty THEN v.major = c.con.major
  ELSE IF c.con.major = 0 /\ v.major > 0 THEN FALSE
  ELSE IF c.con.minor > 0 \/ c.patchDirty THEN v.minor = c.con.minor
  ELSE IF c.con.minor = 0 /\ v.minor > 0 THEN FALSE
  ELSE c.con.patch = v.patch

\* constraintGreaterThan
ConstraintGreaterThan(v, c) ==
  IF SkipsPrerelease(v, c) THEN FALSE
  ELSE IF ~c.dirty THEN Compare(v, c.con) = 1
  ELSE IF v.major > c.con.major THEN TRUE
  ELSE IF v.major < c.con.major THEN FALSE
  ELSE IF c.minorDirty THEN FALSE
  ELSE IF c.patchDirty THEN v.minor > c.con.minor
  ELSE Compare(v, c.con) = 1

\* constraintLessThan
ConstraintLessThan(v, c) ==
  IF SkipsPrerelease(v, c) THEN FALSE ELSE Compare(v, c.con) < 0

\* constraintGreaterThanEqual
ConstraintGreaterThanEqual(v, c) ==
  IF SkipsPrerelease(v, c) THEN FALSE ELSE Compare(v, c.con) >= 0

\* constraintLessThanEqual
ConstraintLessThanEqual(v, c) ==
  IF SkipsPrerelease(v, c) THEN FALSE
  ELSE IF ~c.dirty THEN Compare(v, c.con) <= 0
  ELSE IF v.major > c.con.major THEN FALSE
  ELSE IF v.major = c.con.major /\ v.minor > c.con.minor /\ ~c.minorDirty THEN FALSE
  ELSE TRUE

\* constraintNotEqual
ConstraintNotEqual(v, c) ==
  IF c.dirty /\ SkipsPrerelease(v, c) THEN FALSE
  ELSE IF c.dirty /\ c.con.major # v.major THEN TRUE
  ELSE IF c.dirty /\ c.con.minor # v.minor /\ ~c.minorDirty THEN TRUE
  ELSE IF c.dirty /\ c.minorDirty THEN FALSE
  ELSE IF c.dirty /\ c.con.patch # v.patch /\ ~c.patchDirty THEN TRUE
  ELSE IF c.dirty /\ c.patchDirty
       THEN (IF v.pre # Empty \/ c.con.pre # Empty
             THEN ComparePrerelease(v.pre, c.con.pre) # 0
             ELSE FALSE)
  ELSE Compare(v, c.con) # 0

\* constraint.check: the comparison named by the operator.
CheckOne(v, c) ==
  CASE c.op \in {Empty, <<"=">>}            -> ConstraintTildeOrEqual(v, c)
    [] c.op = <<"!", "=">>                  -> ConstraintNotEqual(v, c)
    [] c.op = <<">">>                       -> ConstraintGreaterThan(v, c)
    [] c.op = <<"<">>                       -> ConstraintLessThan(v, c)
    [] c.op \in {<<">", "=">>, <<"=", ">">>} -> ConstraintGreaterThanEqual(v, c)
    [] c.op \in {<<"<", "=">>, <<"=", "<">>} -> ConstraintLessThanEqual(v, c)
    [] c.op \in {<<"~">>, <<"~", ">">>}      -> ConstraintTilde(v, c)
    [] c.op = <<"^">>                       -> ConstraintCaret(v, c)

\* Constraints.Check: some "or" group all of whose comparators hold.
Check(cs, v) ==
  \E k \in 1..Len(cs.constraints) :
    \A i \in 1..Len(cs.constraints[k]) : CheckOne(v, cs.constraints[k][i])

(***************************************************************************)
(* version/version.go                                                      *)
(***************************************************************************)

Str_alpha == <<"a", "l", "p", "h", "a">>

Str_beta == <<"b", "e", "t", "a">>

Str_rc == <<"r", "c">>

Str_go == <<"g", "o">>

\* PackageKind
SourceKind == <<"S", "o", "u", "r", "c", "e">>

ArchiveKind == <<"A", "r", "c", "h", "i", "v", "e">>

InstallerKind == <<"I", "n", "s", "t", "a", "l", "l", "e", "r">>

\* The nil error.
Nil == [kind |-> "nil", what |-> Empty, goos |-> Empty, goarch |-> Empty]

\* errs.NewMalformedVersionError(v, err)
NewMalformedVersionError(v) ==
  [kind |-> "MalformedVersion", what |-> v, goos |-> Empty, goarch |-> Empty]

\* errs.NewVersionNotFoundError(v, goos, goarch)
NewVersionNotFoundError(v, goos, goarch) ==
  [kind |-> "VersionNotFound", what |-> v, goos |-> goos, goarch |-> goarch]

\* errs.NewPackageNotFoundError(kind, goos, goarch)
NewPackageNotFoundError(kind, goos, goarch) ==
  [kind |-> "PackageNotFound", what |-> kind, goos |-> goos, goarch |-> goarch]

\* A faulty variant of Hyphenate: rc is looked for before beta and alpha.
HyphenateRcFirst(vname) ==
  LET idx == IF Contains(vname, Str_rc) THEN Index(vname, Str_rc)
             ELSE IF Contains(vname, Str_beta) THEN Index(vname, Str_beta)
             ELSE IF Contains(vname, Str_alpha) THEN Index(vname, Str_alpha)
             ELSE 0
  IN  IF idx > 0 THEN Take(vname, idx) \o <<"-">> \o Drop(vname, idx) ELSE vname

\* The string Semantify hands to semver.NewVersion: the name with a hyphen
\* put in front of the first "alpha", else "beta", else "rc", when that
\* token does not start the name.
Hyphenate(vname) ==
  LET idx == IF Contains(vname, Str_alpha) THEN Index(vname, Str_alpha)
             ELSE IF Contains(vname, Str_beta) THEN Index(vname, Str_beta)
             ELSE IF Contains(vname, Str_rc) THEN Index(vname, Str_rc)
             ELSE 0
  IN  IF idx > 0 THEN Take(vname, idx) \o <<"-">> \o Drop(vname, idx) ELSE vname

\* A faulty variant of SemantifyResult: the error of semver.NewVersion is
\* dropped.
SemantifyResultUnchecked(vname, sv) == [sv |-> sv, err |-> Nil]

\* The end of Semantify, vname being the hyphenated string and sv what
\* semver.NewVersion made of it.
SemantifyResult(vname, sv) ==
  IF ~sv.ok
  THEN [sv |-> NoVersion, err |-> NewMalformedVersionError(vname)]
  ELSE [sv |-> sv, err |-> Nil]

\* The call of semver.NewVersion in Semantify.
SemantifyParse(vname) == SemantifyResult(vname, NewVersion(vname))

\* Semantify: the semantic version of a Go version name, or the
\* MalformedVersion error (which carries the hyphenated string).
Semantify(vname) == SemantifyParse(Hyphenate(vname))

\* A Version object; NoObject stands for the nil pointer.
NoObject == [name |-> Empty, sv |-> NoVersion, pkgs |-> <<>>]

\* The end of New, r being what Semantify returned.
NewResult(name, r, pkgs) ==
  IF r.err # Nil
  THEN [v |-> NoObject, err |-> r.err]
  ELSE [v |-> [name |-> name, sv |-> r.sv, pkgs |-> pkgs], err |-> Nil]

\* A faulty variant of New: the object keeps the hyphenated string as its name.
NewKeepsSemverString(name, pkgs) == NewResult(Hyphenate(name), Semantify(name), pkgs)

\* New(name, WithPackages(pkgs))
New(name, pkgs) == NewResult(name, Semantify(name), pkgs)

\* Version.Name
Name(v) == v.name

\* Version.Packages: a copy of the package list.
Packages(v) == [i \in 1..Len(v.pkgs) |-> v.pkgs[i]]

\* Version.MatchConstraint
MatchConstraint(v, c) == Check(c, v.sv)

\* Version.match: some package whose file name contains goos and goarch.
match(v, goos, goarch) ==
  \E i \in 1..Len(v.pkgs) :
    Contains(v.pkgs[i].FileName, goos) /\ Contains(v.pkgs[i].FileName, goarch)

\* The lower-case form of a character ("A" is 27 places before "a" in Ascii).
ToLower(c) == IF c \in UpperSet THEN Ascii[Ord(c) + 27] ELSE c

\* strings.EqualFold: equality up to the case of the letters.
EqualFold(a, b) ==
  Len(a) = Len(b) /\ \A i \in 1..Len(a) : ToLower(a[i]) = ToLower(b[i])

\* A faulty variant of SelectPkgs: the loop ends at the first package that
\* it takes.
RECURSIVE SelectPkgsFirst(_, _, _)
SelectPkgsFirst(s, kind, prefix) ==
  IF s = <<>> THEN <<>>
  ELSE IF EqualFold(s[1].Kind, kind) /\ HasPrefix(s[1].FileName, prefix)
       THEN <<s[1]>>
       ELSE SelectPkgsFirst(Tail(s), kind, prefix)

\* The packages of s of the given kind whose file name starts with prefix,
\* in their order in s (the loop of FindPackages).
RECURSIVE SelectPkgs(_, _, _)
SelectPkgs(s, kind, prefix) ==
  IF s = <<>> THEN <<>>
  ELSE IF EqualFold(s[1].Kind, kind) /\ HasPrefix(s[1].FileName, prefix)
       THEN <<s[1]>> \o SelectPkgs(Tail(s), kind, prefix)
       ELSE SelectPkgs(Tail(s), kind, prefix)

\* The end of FindPackages, pkgs being the packages its loop collected.
FindPackagesResult(pkgs, kind, goos, goarch) ==
  IF pkgs = <<>>
  THEN [pkgs |-> <<>>, err |-> NewPackageNotFoundError(kind, goos, goarch)]
  ELSE [pkgs |-> pkgs, err |-> Nil]

\* Version.FindPackages
FindPackages(v, kind, goos, goarch) ==
  FindPackagesResult(
    SelectPkgs(v.pkgs, kind, Str_go \o v.name \o <<".">> \o goos \o <<"-">> \o goarch),
    kind, goos, goarch)

(***************************************************************************)
(* The inputs of the model                                                 *)
(***************************************************************************)

\* Latest represents the current stable release.
Latest == <<"l", "a", "t", "e", "s", "t">>

\* The most Version objects a run builds.
MaxItems == 3

V_1_20 == <<"1", ".", "2", "0">>

V_1_20_1 == <<"1", ".", "2", "0", ".", "1">>

V_1_21rc4 == <<"1", ".", "2", "1", "r", "c", "4">>

V_1_21_0 == <<"1", ".", "2", "1", ".", "0">>

V_voidint == <<"v", "o", "i", "d", "i", "n", "t">>

\* The names handed to New: releases, a release candidate, a malformed name.
VersionNames == {V_1_20, V_1_20_1, V_1_21rc4, V_1_21_0, V_voidint}

E_lt_1_21 == <<"<", "1", ".", "2", "1">>

\* The expressions handed to Find: "latest", names, a comparator and a
\* string that is no constraint.
Expressions == {Latest, V_1_20, V_1_20_1, V_1_21rc4, E_lt_1_21, V_voidint}

Str_darwin == <<"d", "a", "r", "w", "i", "n">>

Str_linux == <<"l", "i", "n", "u", "x">>

Str_arm64 == <<"a", "r", "m", "6", "4">>

Str_amd64 == <<"a", "m", "d", "6", "4">>

Str_tar_gz == <<".", "t", "a", "r", ".", "g", "z">>

Str_pkg == <<".", "p", "k", "g">>

\* The package go<name>.<goos>-<goarch><ext> of a release.
Pkg(name, goos, goarch, ext, kind) ==
  [FileName |-> Str_go \o name \o <<".">> \o goos \o <<"-">> \o goarch \o ext,
   Kind     |-> kind]

\* The package lists handed to WithPackages for a version name: a
\* linux/amd64 archive, alone or with a darwin/arm64 installer.
PackageLists(name) ==
  { <<Pkg(name, Str_linux, Str_amd64, Str_tar_gz, ArchiveKind)>>,
    <<Pkg(name, Str_linux, Str_amd64, Str_tar_gz, ArchiveKind),
      Pkg(name, Str_darwin, Str_arm64, Str_pkg, InstallerKind)>> }

\* The options handed to NewFinder.
Targets ==
  { [kind |-> ArchiveKind, goos |-> Str_darwin, goarch |-> Str_arm64],
    [kind |-> InstallerKind, goos |-> Str_linux, goarch |-> Str_amd64] }

\* semver.NewConstraint(e) for each expression of the model, parsed once.
Parsed == [e \in Expressions |-> NewConstraint(e)]

(***************************************************************************)
(* version/finder.go                                                       *)
(***************************************************************************)

VARIABLES
  heap,   \* the Version objects built so far; a *Version is an index into it
  given,  \* given[id]: the name that was passed to New for object id
  vs,     \* the caller's slice of *Version
  fdr,    \* the Finder, once built (its items share the caller's slice)
  pc,     \* "build" before NewFinder, "query" after
  res     \* what the last call returned

vars == <<heap, given, vs, fdr, pc, res>>

\* Collection.Less on two *Version.
Less(a, b) == LessThan(heap[a].sv, heap[b].sv)

\* One pass of the inner loop of insertion sort: x, appended to the sorted
\* s, moves left while it is Less than its left neighbour.
RECURSIVE Insert(_, _)
Insert(s, x) ==
  IF s = <<>> THEN <<x>>
  ELSE IF Less(x, s[Len(s)])
       THEN Append(Insert(Take(s, Len(s) - 1), x), s[Len(s)])
       ELSE Append(s, x)

\* sort.Sort(Collection(items)): Go sorts a slice of at most 12 elements
\* by insertion sort.
RECURSIVE Sort(_)
Sort(items) ==
  IF items = <<>> THEN <<>>
  ELSE Insert(Sort(Take(items, Len(items) - 1)), items[Len(items)])

\* A faulty variant of NewFinder: the items are stored as given, unsorted.
NewFinderUnsorted(items, kind, goos, goarch) ==
  [kind |-> kind, goos |-> goos, goarch |-> goarch, items |-> items]

\* NewFinder(items, WithFinderPackageKind(kind), WithFinderGoos(goos),
\* WithFinderGoarch(goarch))
NewFinder(items, kind, goos, goarch) ==
  [kind |-> kind, goos |-> goos, goarch |-> goarch, items |-> Sort(items)]

NoFinder == [kind |-> Empty, goos |-> Empty, goarch |-> Empty, items |-> <<>>]

\* The greatest element of a non-empty set of integers.
Max(S) == CHOOSE i \in S : \A j \in S : j <= i

\* The result of a lookup: v = 0 stands for the nil *Version; pass names
\* the part of Find that returned.
Found(id, pass) == [v |-> id, err |-> Nil, pass |-> pass]

Failed(err, pass) == [v |-> 0, err |-> err, pass |-> pass]

\* The indexes of the items with a package for the Finder's platform.
Matching(f) == {i \in 1..Len(f.items) : match(heap[f.items[i]], f.goos, f.goarch)}

\* A faulty variant of LatestLoop: only the last item is looked at.
LatestLoopLast(f, hit) ==
  IF Len(f.items) \in hit
  THEN Found(f.items[Len(f.items)], "latest")
  ELSE Failed(NewPackageNotFoundError(f.kind, f.goos, f.goarch), "latest")

\* The loop of findLatest, from the last item down: it returns at the
\* greatest index of hit, the indexes of the matching items.
LatestLoop(f, hit) ==
  IF hit # {}
  THEN Found(f.items[Max(hit)], "latest")
  ELSE Failed(NewPackageNotFoundError(f.kind, f.goos, f.goarch), "latest")

\* Finder.findLatest
findLatest(f) ==
  IF Len(f.items) = 0
  THEN Failed(NewVersionNotFoundError(Latest, f.goos, f.goarch), "latest")
  ELSE LatestLoop(f, Matching(f))

\* A faulty variant of ConstraintLoop: the scan runs from the first item up.
ConstraintLoopLowest(f, vname, sat, ms) ==
  IF sat \cap ms # {}
  THEN Found(f.items[CHOOSE i \in sat \cap ms : \A j \in sat \cap ms : i <= j],
             "constraint")
  ELSE IF sat # {}
  THEN Failed(NewPackageNotFoundError(f.kind, f.goos, f.goarch), "constraint")
  ELSE Failed(NewVersionNotFoundError(vname, f.goos, f.goarch), "constraint")

\* The second loop of Find, from the last item down: sat are the indexes of
\* the items that pass cs.Check (versionFound is sat # {}), ms those of the
\* matching items; it returns at the greatest index in both.
ConstraintLoop(f, vname, sat, ms) ==
  IF sat \cap ms # {} THEN Found(f.items[Max(sat \cap ms)], "constraint")
  ELSE IF sat # {}
  THEN Failed(NewPackageNotFoundError(f.kind, f.goos, f.goarch), "constraint")
  ELSE Failed(NewVersionNotFoundError(vname, f.goos, f.goarch), "constraint")

\* A faulty variant of ConstraintPass: the loop takes every item as satisfying.
ConstraintPassUnchecked(f, vname, cs, ms) ==
  IF ~cs.ok
  THEN Failed(NewVersionNotFoundError(vname, f.goos, f.goarch), "constraint")
  ELSE ConstraintLoop(f, vname, 1..Len(f.items), ms)

\* A faulty variant of ConstraintPass: a parse failure is reported as a malformed
\* version, and no satisfying version as a missing package.
ConstraintPassOtherErrors(f, vname, cs, ms) ==
  IF ~cs.ok
  THEN Failed(NewMalformedVersionError(vname), "constraint")
  ELSE IF {i \in 1..Len(f.items) : Check(cs, heap[f.items[i]].sv)} = {}
  THEN Failed(NewPackageNotFoundError(f.kind, f.goos, f.goarch), "constraint")
  ELSE ConstraintLoop(f, vname,
                      {i \in 1..Len(f.items) : Check(cs, heap[f.items[i]].sv)}, ms)

\* Find from semver.NewConstraint on.
ConstraintPass(f, vname, cs, ms) ==
  IF ~cs.ok
  THEN Failed(NewVersionNotFoundError(vname, f.goos, f.goarch), "constraint")
  ELSE ConstraintLoop(f, vname,
                      {i \in 1..Len(f.items) : Check(cs, heap[f.items[i]].sv)}, ms)

\* A faulty variant of ExactPass: the name is never compared.
ExactPassSkipped(f, vname, ms) ==
  ConstraintPass(f, vname, Parsed[vname], ms)

\* The first loop of Find, from the last item down: it returns at the
\* greatest index of an item of that name with a matching package.
ExactPass(f, vname, ms) ==
  IF {i \in ms : heap[f.items[i]].name = vname} # {}
  THEN Found(f.items[Max({i \in ms : heap[f.items[i]].name = vname})], "exact")
  ELSE ConstraintPass(f, vname, Parsed[vname], ms)

\* Finder.Find
Find(f, vname) ==
  IF vname = Latest THEN findLatest(f) ELSE ExactPass(f, vname, Matching(f))

\* The end of MustFind, r being what Find returned.
MustFindResult(r) ==
  IF r.err # Nil
  THEN [v |-> 0, panic |-> r.err, returned |-> FALSE]
  ELSE [v |-> r.v, panic |-> Nil, returned |-> TRUE]

\* A faulty variant of MustFind: the error is dropped and nil is returned.
MustFindReturnsNil(f, vname) ==
  [v |-> Find(f, vname).v, panic |-> Nil, returned |-> TRUE]

\* Finder.MustFind: returns Find's version, or panics with Find's error.
MustFind(f, vname) == MustFindResult(Find(f, vname))

(***************************************************************************)
(* The state machine: a caller builds versions, sorts them, builds a       *)
(* Finder over them and queries it.                                        *)
(***************************************************************************)

NoRes ==
  [op |-> "none", arg |-> Empty, id |-> 0, v |-> 0, err |-> Nil, pass |-> "none",
   returned |-> TRUE, pkgs |-> <<>>, out |-> Empty, ok |-> FALSE, input |-> <<>>]

\* The caller holds no result of a call.
Idle == res.op = "none"

Init ==
  /\ heap = <<>>
  /\ given = <<>>
  /\ vs = <<>>
  /\ fdr = NoFinder
  /\ pc = "build"
  /\ res = NoRes

\* v, err := New(name, WithPackages(pkgs)); on success v is appended to vs.
NewAct ==
  /\ Idle
  /\ pc = "build"
  /\ Len(heap) < MaxItems
  /\ \E name \in VersionNames : \E pkgs \in PackageLists(name) :
       \E r \in {New(name, pkgs)} :
           /\ heap' = IF r.err = Nil THEN Append(heap, r.v) ELSE heap
           /\ given' = IF r.err = Nil THEN Append(given, name) ELSE given
           /\ vs' = IF r.err = Nil THEN Append(vs, Len(heap) + 1) ELSE vs
           /\ res' = [NoRes EXCEPT !.op = "New", !.arg = name, !.err = r.err,
                                   !.v = IF r.err = Nil THEN Len(heap) + 1 ELSE 0]
  /\ UNCHANGED <<fdr, pc>>

\* sort.Sort(version.Collection(vs)); the Finder's items are the same slice.
SortAct ==
  /\ Idle
  /\ vs' = Sort(vs)
  /\ fdr' = IF pc = "query" THEN [fdr EXCEPT !.items = vs'] ELSE fdr
  /\ res' = [NoRes EXCEPT !.op = "Sort", !.input = vs]
  /\ UNCHANGED <<heap, given, pc>>

\* fdr := NewFinder(vs, opts...): sorts the caller's slice in place.
NewFinderAct ==
  /\ Idle
  /\ pc = "build"
  /\ \E t \in Targets :
       /\ fdr' = NewFinder(vs, t.kind, t.goos, t.goarch)
       /\ vs' = fdr'.items
  /\ pc' = "query"
  /\ res' = [NoRes EXCEPT !.op = "NewFinder", !.input = vs]
  /\ UNCHANGED <<heap, given>>

\* v, err := fdr.Find(vname)
FindAct ==
  /\ Idle
  /\ pc = "query"
  /\ \E vname \in Expressions :
       \E r \in {Find(fdr, vname)} :
           res' = [NoRes EXCEPT !.op = "Find", !.arg = vname, !.v = r.v,
                                !.err = r.err, !.pass = r.pass]
  /\ UNCHANGED <<heap, given, vs, fdr, pc>>

\* v := fdr.MustFind(vname)
MustFindAct ==
  /\ Idle
  /\ pc = "query"
  /\ \E vname \in Expressions :
       \E r \in {MustFind(fdr, vname)} :
           res' = [NoRes EXCEPT !.op = "MustFind", !.arg = vname, !.v = r.v,
                                !.err = r.panic, !.returned = r.returned]
  /\ UNCHANGED <<heap, given, vs, fdr, pc>>

\* v.Name()
NameAct ==
  /\ Idle
  /\ pc = "query"
  /\ \E id \in 1..Len(heap) :
       res' = [NoRes EXCEPT !.op = "Name", !.id = id, !.out = Name(heap[id])]
  /\ UNCHANGED <<heap, given, vs, fdr, pc>>

\* v.Packages()
PackagesAct ==
  /\ Idle
  /\ pc = "query"
  /\ \E id \in 1..Len(heap) :
       res' = [NoRes EXCEPT !.op = "Packages", !.id = id, !.pkgs = Packages(heap[id])]
  /\ UNCHANGED <<heap, given, vs, fdr, pc>>

\* v.MatchConstraint(cs), cs from semver.NewConstraint(expr) without error
MatchConstraintAct ==
  /\ Idle
  /\ pc = "query"
  /\ \E expr \in Expressions \ {Latest} : \E cs \in {Parsed[expr]} :
       /\ cs.ok
       /\ \E id \in 1..Len(heap) :
            res' = [NoRes EXCEPT !.op = "MatchConstraint", !.id = id, !.arg = expr,
                                 !.ok = MatchConstraint(heap[id], cs)]
  /\ UNCHANGED <<heap, given, vs, fdr, pc>>

\* pkgs, err := v.FindPackages(kind, goos, goarch)
FindPackagesAct ==
  /\ Idle
  /\ pc = "query"
  /\ \E id \in 1..Len(heap) : \E t \in Targets :
       \E r \in {FindPackages(heap[id], t.kind, t.goos, t.goarch)} :
           res' = [NoRes EXCEPT !.op = "FindPackages", !.id = id, !.arg = t.kind,
                                !.pkgs = r.pkgs, !.err = r.err]
  /\ UNCHANGED <<heap, given, vs, fdr, pc>>

\* The caller is done with the result of its last call.
ReturnAct ==
  /\ ~Idle
  /\ res' = NoRes
  /\ UNCHANGED <<heap, given, vs, fdr, pc>>

Next ==
  \/ NewAct
  \/ SortAct
  \/ NewFinderAct
  \/ FindAct
  \/ MustFindAct
  \/ NameAct
  \/ PackagesAct
  \/ MatchConstraintAct
  \/ FindPackagesAct
  \/ ReturnAct

Spec == Init /\ [][Next]_vars

(***************************************************************************)
(* Properties                                                              *)
(***************************************************************************)

\* The objects the Finder holds.
Corpus == {fdr.items[i] : i \in 1..Len(fdr.items)}

\* Object id has a package for the Finder's os and arch.
OnPlatform(id) == match(heap[id], fdr.goos, fdr.goarch)

\* The objects of the corpus with a package for the Finder's os and arch.
Platform == {id \in Corpus : OnPlatform(id)}

\* The caller's expression parses as a constraint.
Parses == Parsed[res.arg].ok

\* The objects of the corpus that satisfy the caller's expression read as a
\* constraint.
Satisfying ==
  LET cs == Parsed[res.arg]
  IN  {id \in Corpus : cs.ok /\ Check(cs, heap[id].sv)}

\* The objects of the corpus named as the caller's expression.
Named == {id \in Corpus : heap[id].name = res.arg}

\* Those of them with a package for the platform.
NamedOnPlatform == {id \in Named : OnPlatform(id)}

\* Object a is a strictly higher version than object b.
Higher(a, b) == Compare(heap[a].sv, heap[b].sv) > 0

\* The caller holds the result of Find(e), e other than "latest".
FindReturned == res.op = "Find" /\ res.arg # Latest

\* The caller holds the result of Find("latest").
LatestReturned == res.op = "Find" /\ res.arg = Latest

VersionNotFound(e) ==
  [kind |-> "VersionNotFound", what |-> e, goos |-> fdr.goos, goarch |-> fdr.goarch]

PackageNotFound ==
  [kind |-> "PackageNotFound", what |-> fdr.kind, goos |-> fdr.goos,
   goarch |-> fdr.goarch]

\* C1: when no version is named E with a platform package, E parses as a
\* constraint and Find(E) returns a version v, then v is of the corpus,
\* satisfies E and has a package for the platform, and no strictly higher
\* version of the corpus both satisfies E and has a package for the platform.
C1_HighestSatisfying ==
  (FindReturned /\ res.v # 0 /\ NamedOnPlatform = {} /\ Parses) =>
     LET sat == Satisfying
     IN  /\ res.v \in sat
         /\ OnPlatform(res.v)
         /\ \A id \in sat : Higher(id, res.v) => ~OnPlatform(id)

\* Find("<1.21") returned a version while a lower version also satisfies the
\* constraint with a platform package, and a higher version has a platform
\* package without satisfying it.
C1_Witness ==
  /\ FindReturned /\ res.arg = E_lt_1_21 /\ res.v # 0
  /\ NamedOnPlatform = {}
  /\ \E lo \in Satisfying \cap Platform : Higher(res.v, lo)
  /\ \E hi \in Platform \ Satisfying : Higher(hi, res.v)

\* C2: when the corpus holds a version named E with a package for the
\* platform, Find(E) returns a version named exactly E, from its first loop:
\* the constraint is not parsed.
C2_ExactNameWins ==
  (FindReturned /\ NamedOnPlatform # {}) =>
     /\ res.err = Nil
     /\ res.v \in NamedOnPlatform
     /\ res.pass = "exact"

\* Find("1.20") returned 1.20 while a higher version satisfies "1.20" read as
\* a constraint and has a platform package.
C2_Witness ==
  /\ FindReturned /\ res.arg = V_1_20 /\ res.v # 0
  /\ heap[res.v].name = V_1_20
  /\ \E hi \in Satisfying \cap Platform : Higher(hi, res.v)

\* C3: in the constraint pass of Find(E), when some version satisfies E and
\* no satisfying version has a package for the platform, Find returns no
\* version and PackageNotFound(kind, os, arch); and the constraint pass
\* never returns a version that does not satisfy E.
C3_PackageNotFound ==
  (FindReturned /\ NamedOnPlatform = {} /\ Parses) =>
     LET sat == Satisfying
     IN  /\ (sat # {} /\ \A id \in sat : ~OnPlatform(id))
               => (res.v = 0 /\ res.err = PackageNotFound)
         /\ res.v # 0 => res.v \in sat

\* Find("<1.21") returned PackageNotFound while a version that does not
\* satisfy the constraint has a package for the platform.
C3_Witness ==
  /\ FindReturned /\ res.arg = E_lt_1_21
  /\ res.err = PackageNotFound
  /\ Satisfying # {}
  /\ Platform \ Satisfying # {}

\* C4: for E other than "latest" with no version named E with a platform
\* package, when E does not parse as a constraint or no version satisfies
\* it, Find(E) returns no version and VersionNotFound(E, os, arch).
C4_VersionNotFound ==
  (FindReturned /\ Satisfying = {} /\ NamedOnPlatform = {}) =>
     (res.v = 0 /\ res.err = VersionNotFound(res.arg))

\* Find(E) returned VersionNotFound on a corpus of MaxItems versions, for an
\* E that parses as a constraint.
C4_Witness ==
  /\ FindReturned /\ Parses
  /\ Cardinality(Corpus) = MaxItems
  /\ res.err = VersionNotFound(res.arg)

\* C5: Find(E) returns VersionNotFound only when no version of the corpus is
\* named E or satisfies E; when some version is named E or satisfies E and
\* no such version has a package for the platform, it returns
\* PackageNotFound.
C5_VersionNotFoundOnlyWhenNoMatch ==
  FindReturned =>
     LET matched == Named \cup Satisfying
     IN  /\ res.err.kind = "VersionNotFound" => matched = {}
         /\ (matched # {} /\ matched \cap Platform = {}) => res.err = PackageNotFound

\* C6: Find("latest") returns the highest version of the corpus that has a
\* package for the platform; VersionNotFound(latest, os, arch) on an empty
\* corpus; PackageNotFound(kind, os, arch) on a corpus without any package
\* for the platform.
C6_LatestHighestOnPlatform ==
  LatestReturned =>
     LET plat == Platform
     IN  /\ Corpus = {} => (res.v = 0 /\ res.err = VersionNotFound(Latest))
         /\ (Corpus # {} /\ plat = {}) => (res.v = 0 /\ res.err = PackageNotFound)
         /\ plat # {}
              => /\ res.err = Nil
                 /\ res.v \in plat
                 /\ \A id \in plat : ~Higher(id, res.v)

\* Find("latest") returned a version while a higher version of the corpus
\* has no package for the platform.
C6_Witness ==
  /\ LatestReturned /\ res.v # 0
  /\ \E hi \in Corpus \ Platform : Higher(hi, res.v)
  /\ \E lo \in Platform : Higher(res.v, lo)

\* C7: Find("latest") returns a stable version, not a prerelease, whenever
\* the corpus holds a stable version with a package for the platform.
C7_LatestIsStable ==
  (LatestReturned /\ \E id \in Platform : heap[id].sv.pre = Empty) =>
     (res.v # 0 /\ heap[res.v].sv.pre = Empty)

\* C8: MustFind(E) returns the version Find(E) returns when Find succeeds,
\* panics with Find's error when Find fails, and never returns nil.
C8_MustFind ==
  res.op = "MustFind" =>
     LET r == Find(fdr, res.arg)
     IN  /\ r.err = Nil => (res.returned /\ res.v = r.v /\ res.err = Nil)
         /\ r.err # Nil => (~res.returned /\ res.err = r.err)
         /\ res.returned => res.v \in Corpus

\* MustFind panicked with PackageNotFound.
C8_Witness ==
  /\ res.op = "MustFind"
  /\ ~res.returned
  /\ res.err = PackageNotFound

\* The precedence of the names of the model, lowest first.
Precedence == <<V_1_20, V_1_20_1, V_1_21rc4, V_1_21_0>>

Rank(name) == CHOOSE k \in 1..Len(Precedence) : Precedence[k] = name

\* C9: sorting a Collection (sort.Sort, or NewFinder) leaves a permutation
\* of its input in which no item is a higher version than a later item: a
\* prerelease lies below the release of its triple and above every lower
\* release.
C9_SortedPermutation ==
  res.op \in {"Sort", "NewFinder"} =>
     /\ Len(vs) = Len(res.input)
     /\ \A id \in 1..Len(heap) :
          Cardinality({i \in 1..Len(vs) : vs[i] = id})
            = Cardinality({i \in 1..Len(res.input) : res.input[i] = id})
     /\ \A i, j \in 1..Len(vs) :
          i < j => /\ Compare(heap[vs[i]].sv, heap[vs[j]].sv) <= 0
                   /\ Rank(given[vs[i]]) <= Rank(given[vs[j]])
     /\ res.op = "NewFinder" => fdr.items = vs

\* A sort moved the release candidate 1.21rc4 in front of 1.21.0 and behind
\* a lower release.
C9_Witness ==
  /\ res.op = "Sort"
  /\ Len(vs) = MaxItems
  /\ \E i, j \in 1..Len(vs) :
       /\ i < j
       /\ given[res.input[i]] = V_1_21_0
       /\ given[res.input[j]] = V_1_21rc4
  /\ given[vs[1]] \in {V_1_20, V_1_20_1}
  /\ given[vs[2]] = V_1_21rc4
  /\ given[vs[3]] = V_1_21_0

\* C10: Name() returns the string passed to New, for every object built and
\* in every state, whatever was called since.
C10_NameUnchanged ==
  /\ \A id \in 1..Len(heap) : Name(heap[id]) = given[id]
  /\ res.op = "Name" => res.out = given[res.id]

\* Name() returned "1.21rc4" for an object which the sort of NewFinder moved.
C10_Witness ==
  /\ res.op = "Name"
  /\ pc = "query"
  /\ given[res.id] = V_1_21rc4
  /\ res.out = V_1_21rc4
  /\ vs[1] # 1

(***************************************************************************)
(* version.New over names of every shape                                   *)
(***************************************************************************)

\* The numeric part of a name handed to New.
NameHeads ==
  { Empty, <<"1">>, <<"1", ".", "2", "1">>, <<"1", ".", "2", "1", ".", "0">>,
    <<"1", ".", "2", "1", ".">>, <<"v", "1", ".", "2">>, <<"g", "o", "1">>,
    <<"1", ".", "x">> }

\* The prerelease token of a name handed to New.
NameTokens ==
  { Empty, Str_rc, Str_beta, Str_alpha, <<"-">> \o Str_rc, Str_rc \o Str_beta,
    <<"p", "r", "e">> }

\* What follows the token.
NameTails == { Empty, <<"1">>, <<".", "1">> }

\* The names handed to New: every head, token and tail, and "voidint".
NewNames ==
  {h \o t \o n : h \in NameHeads, t \in NameTokens, n \in NameTails} \cup {V_voidint}

\* The result of New(name), as the caller holds it.
NewReturned(name, r) ==
  [op |-> "version.New", arg |-> name, v |-> r.v, err |-> r.err]

\* v, err := New(name)
NewNameAct ==
  /\ Idle
  /\ \E name \in NewNames : res' = NewReturned(name, New(name, <<>>))
  /\ UNCHANGED <<heap, given, vs, fdr, pc>>

NextNew ==
  \/ NewNameAct
  \/ ReturnAct

SpecNew == Init /\ [][NextNew]_vars

\* C11: New fails with a MalformedVersion error and returns no Version for
\* a name that, with the hyphen of Semantify put in, is no semantic version;
\* it succeeds, with a Version of that name, for every name that is one.
C11_MalformedVersion ==
  res.op = "version.New" =>
     IF NewVersion(Hyphenate(res.arg)).ok
     THEN /\ res.err = Nil
          /\ res.v # NoObject
          /\ res.v.name = res.arg
          /\ res.v.sv.ok
     ELSE /\ res.err.kind = "MalformedVersion"
          /\ res.v = NoObject

\* New("") failed with MalformedVersion.
C11_Witness ==
  /\ res.op = "version.New"
  /\ res.arg = Empty
  /\ res.err.kind = "MalformedVersion"
  /\ res.v = NoObject

(***************************************************************************)
(* collector/collector.go                                                  *)
(***************************************************************************)

\* Golang official site download page URLs
OriginalOfficialDownloadPageURL ==
  <<"h", "t", "t", "p", "s", ":", "/", "/", "g", "o", "l", "a", "n", "g",
    ".", "o", "r", "g", "/", "d", "l", "/">>

OfficialDownloadPageURL ==
  <<"h", "t", "t", "p", "s", ":", "/", "/", "g", "o", ".", "d", "e", "v",
    "/", "d", "l", "/">>

CNDownloadPageURL ==
  <<"h", "t", "t", "p", "s", ":", "/", "/", "g", "o", "l", "a", "n", "g",
    ".", "g", "o", "o", "g", "l", "e", ".", "c", "n", "/", "d", "l", "/">>

\* Nginx fancyindex mirror sites
AliYunDownloadPageURL ==
  <<"h", "t", "t", "p", "s", ":", "/", "/", "m", "i", "r", "r", "o", "r",
    "s", ".", "a", "l", "i", "y", "u", "n", ".", "c", "o", "m", "/", "g",
    "o", "l", "a", "n", "g", "/">>

HUSTDownloadPageURL ==
  <<"h", "t", "t", "p", "s", ":", "/", "/", "m", "i", "r", "r", "o", "r",
    "s", ".", "h", "u", "s", "t", ".", "e", "d", "u", ".", "c", "n", "/",
    "g", "o", "l", "a", "n", "g", "/">>

NJUDownloadPageURL ==
  <<"h", "t", "t", "p", "s", ":", "/", "/", "m", "i", "r", "r", "o", "r",
    "s", ".", "n", "j", "u", ".", "e", "d", "u", ".", "c", "n", "/", "g",
    "o", "l", "a", "n", "g", "/">>

\* Nginx autoindex mirror site
USTCDownloadPageURL ==
  <<"h", "t", "t", "p", "s", ":", "/", "/", "m", "i", "r", "r", "o", "r",
    "s", ".", "u", "s", "t", "c", ".", "e", "d", "u", ".", "c", "n", "/",
    "g", "o", "l", "a", "n", "g", "/">>

\* official.Name, fancyindex.Name, autoindex.Name
official_Name == <<"o", "f", "f", "i", "c", "i", "a", "l">>

fancyindex_Name == <<"f", "a", "n", "c", "y", "i", "n", "d", "e", "x">>

autoindex_Name == <<"a", "u", "t", "o", "i", "n", "d", "e", "x">>

\* errs.ErrCollectorNotFound
ErrCollectorNotFound ==
  [kind |-> "CollectorNotFound", what |-> Empty, goos |-> Empty, goarch |-> Empty]

\* errs.ErrEmptyURL
ErrEmptyURL == [kind |-> "EmptyURL", what |-> Empty, goos |-> Empty, goarch |-> Empty]

\* errs.NewURLUnreachableError(url, err)
NewURLUnreachableError(url) ==
  [kind |-> "URLUnreachable", what |-> url, goos |-> Empty, goarch |-> Empty]

\* strings.TrimSpace
TrimSpace(s) == TrimSpaces(s)

\* The nil Collector.
NoCollector == [name |-> Empty, url |-> Empty]

\* What NewCollector returns: the Collector and the error, together with the
\* adapter constructors it called, in order, and the caller's slice, whose
\* elements the loop normalizes in place.
Returned(c, err, calls, urls) == [c |-> c, err |-> err, calls |-> calls, urls |-> urls]

\* official.NewCollector, fancyindex.NewCollector, autoindex.NewCollector:
\* the adapter named name over downloadPageURL; http.Get fails, or answers
\* with another status than success, for the URLs of down.
AdapterNewCollector(name, downloadPageURL, down, urls) ==
  IF downloadPageURL = Empty
  THEN Returned(NoCollector, ErrEmptyURL, <<[name |-> name, url |-> downloadPageURL]>>, urls)
  ELSE IF downloadPageURL \in down
  THEN Returned(NoCollector, NewURLUnreachableError(downloadPageURL),
                <<[name |-> name, url |-> downloadPageURL]>>, urls)
  ELSE Returned([name |-> name, url |-> downloadPageURL], Nil,
                <<[name |-> name, url |-> downloadPageURL]>>, urls)

\* The first two statements of the loop body: urls[i] trimmed, and ended by
\* a slash.
WithSlash(u) == IF HasSuffix(u, <<"/">>) THEN u ELSE u \o <<"/">>

\* A faulty variant of Normalize: the spaces around the candidate are kept.
NormalizeUntrimmed(u) == WithSlash(u)

Normalize(u) == WithSlash(TrimSpace(u))

RECURSIVE Resolve(_, _, _)

\* A faulty variant of ResolveURL: a candidate that is no well-known URL
\* ends the resolution.
ResolveURLStops(urls, i, down) ==
  IF urls[i] \in {OfficialDownloadPageURL, OriginalOfficialDownloadPageURL,
                  CNDownloadPageURL}
  THEN AdapterNewCollector(official_Name, urls[i], down, urls)
  ELSE IF urls[i] \in {AliYunDownloadPageURL, HUSTDownloadPageURL, NJUDownloadPageURL}
  THEN AdapterNewCollector(fancyindex_Name, urls[i], down, urls)
  ELSE IF urls[i] = USTCDownloadPageURL
  THEN AdapterNewCollector(autoindex_Name, urls[i], down, urls)
  ELSE Returned(NoCollector, ErrCollectorNotFound, <<>>, urls)

\* The switch on the whole candidate, against the well-known URLs.
ResolveURL(urls, i, down) ==
  IF urls[i] \in {OfficialDownloadPageURL, OriginalOfficialDownloadPageURL,
                  CNDownloadPageURL}
  THEN AdapterNewCollector(official_Name, urls[i], down, urls)
  ELSE IF urls[i] \in {AliYunDownloadPageURL, HUSTDownloadPageURL, NJUDownloadPageURL}
  THEN AdapterNewCollector(fancyindex_Name, urls[i], down, urls)
  ELSE IF urls[i] = USTCDownloadPageURL
  THEN AdapterNewCollector(autoindex_Name, urls[i], down, urls)
  ELSE Resolve(urls, i + 1, down)

\* A faulty variant of ResolveName: a URL of the table of well-known URLs
\* keeps the adapter of the table, whatever the name before the bar.
ResolveNameTableFirst(urls, i, down, collectorName, downloadPageURL) ==
  IF downloadPageURL \in {OfficialDownloadPageURL, OriginalOfficialDownloadPageURL,
                          CNDownloadPageURL}
  THEN AdapterNewCollector(official_Name, downloadPageURL, down, urls)
  ELSE IF downloadPageURL \in {AliYunDownloadPageURL, HUSTDownloadPageURL,
                               NJUDownloadPageURL}
  THEN AdapterNewCollector(fancyindex_Name, downloadPageURL, down, urls)
  ELSE IF downloadPageURL = USTCDownloadPageURL
  THEN AdapterNewCollector(autoindex_Name, downloadPageURL, down, urls)
  ELSE IF collectorName \in {official_Name, fancyindex_Name, autoindex_Name}
  THEN AdapterNewCollector(collectorName, downloadPageURL, down, urls)
  ELSE Resolve(urls, i + 1, down)

\* The switch on the collector name of a name|URL candidate.
ResolveName(urls, i, down, collectorName, downloadPageURL) ==
  IF collectorName \in {official_Name, fancyindex_Name, autoindex_Name}
  THEN AdapterNewCollector(collectorName, downloadPageURL, down, urls)
  ELSE Resolve(urls, i + 1, down)

\* The loop body from strings.Index on, urls[i] being normalized and idx the
\* index of its first "|".
ResolveAt(urls, i, down, idx) ==
  IF idx > 0 /\ idx < Len(urls[i]) - 1
  THEN ResolveName(urls, i, down, TrimSpace(Take(urls[i], idx)),
                   TrimSpace(Drop(urls[i], idx + 1)))
  ELSE ResolveURL(urls, i, down)

\* A faulty variant of ResolveNormalized: when the adapter of a candidate
\* cannot fetch its page, the candidates after it are tried.
ResolveNormalizedFailover(urls, i, down) ==
  IF /\ i < Len(urls)
     /\ ResolveAt(urls, i, down, Index(urls[i], <<"|">>)).err.kind = "URLUnreachable"
  THEN Resolve(urls, i + 1, down)
  ELSE ResolveAt(urls, i, down, Index(urls[i], <<"|">>))

\* The loop body, after urls[i] was normalized in place.
ResolveNormalized(urls, i, down) == ResolveAt(urls, i, down, Index(urls[i], <<"|">>))

\* The loop of NewCollector from index i on (1-based), and the return after
\* it.
Resolve(urls, i, down) ==
  IF i > Len(urls)
  THEN Returned(NoCollector, ErrCollectorNotFound, <<>>, urls)
  ELSE ResolveNormalized([urls EXCEPT ![i] = Normalize(urls[i])], i, down)

\* The result for the caller: of urls, the caller sees its own slice, which
\* the default did not replace.
OfDefault(r, urls) == [r EXCEPT !.urls = urls]

\* A faulty variant of NewCollector: the official download page is no
\* default.
NewCollectorNoDefault(urls, down) == Resolve(urls, 1, down)

\* NewCollector(urls...), http.Get failing for the URLs of down.
NewCollector(urls, down) ==
  IF Len(urls) = 0 \/ (Len(urls) = 1 /\ urls[1] = Empty)
  THEN OfDefault(Resolve(<<OfficialDownloadPageURL>>, 1, down), urls)
  ELSE Resolve(urls, 1, down)

\* The longest candidate list of the model.
MaxCandidates == 2

Bar == <<"|">>

Str_hello_world == <<"h", "e", "l", "l", "o", " ", "w", "o", "r", "l", "d">>

Str_unknown == <<"u", "n", "k", "n", "o", "w", "n">>

\* The candidates of the model: bare URLs of the table, with and without
\* the trailing slash and with spaces around them, name|URL pairs whose
\* name agrees and disagrees with the table, a pair with spaces around the
\* name and the URL, and candidates that name no adapter.
Candidates ==
  { Empty,
    <<" ">>,
    OfficialDownloadPageURL,
    Take(AliYunDownloadPageURL, Len(AliYunDownloadPageURL) - 1),
    <<" ">> \o USTCDownloadPageURL \o <<" ">>,
    fancyindex_Name \o Bar \o OfficialDownloadPageURL,
    autoindex_Name \o Bar \o Take(AliYunDownloadPageURL, Len(AliYunDownloadPageURL) - 1),
    <<" ">> \o official_Name \o <<" ">> \o Bar \o <<" ">> \o CNDownloadPageURL \o <<" ">>,
    Str_hello_world,
    Str_unknown \o Bar \o OfficialDownloadPageURL,
    fancyindex_Name \o Bar,
    Bar \o OfficialDownloadPageURL }

CandidateLists == UNION {[1..n -> Candidates] : n \in 0..MaxCandidates}

\* The download pages that http.Get may fail to fetch.
Unreachable == {OfficialDownloadPageURL, AliYunDownloadPageURL}

NewCollectorReturned(urls, down, r) ==
  [op |-> "NewCollector", arg |-> urls, down |-> down,
   c |-> r.c, err |-> r.err, calls |-> r.calls, urls |-> r.urls]

NewCollectorAct ==
  /\ Idle
  /\ \E urls \in CandidateLists, down \in SUBSET Unreachable :
       res' = NewCollectorReturned(urls, down, NewCollector(urls, down))
  /\ UNCHANGED <<heap, given, vs, fdr, pc>>

NextCollector ==
  \/ NewCollectorAct
  \/ ReturnAct

SpecCollector == Init /\ [][NextCollector]_vars

(***************************************************************************)
(* Properties of NewCollector                                              *)
(***************************************************************************)

KnownNames == {official_Name, fancyindex_Name, autoindex_Name}

\* The text before and after the first bar of a candidate, without the
\* spaces around them.
NameOf(u) == TrimSpace(Take(u, Index(u, Bar)))

URLOf(u) == TrimSpace(Drop(u, Index(u, Bar) + 1))

\* u names one of the three adapters before a bar.
Names(u) == Index(u, Bar) > 0 /\ NameOf(u) \in KnownNames

\* u has the form name|URL with a known name and a non-empty URL.
IsPair(u) == Names(u) /\ URLOf(u) # Empty

SlashTerminated(u) == IF u # Empty /\ u[Len(u)] = "/" THEN u ELSE u \o <<"/">>

\* The adapter that the table of well-known URLs associates with a URL;
\* the empty name when it has none.
TableAdapter(u) ==
  IF u \in {OfficialDownloadPageURL, OriginalOfficialDownloadPageURL, CNDownloadPageURL}
  THEN official_Name
  ELSE IF u \in {AliYunDownloadPageURL, HUSTDownloadPageURL, NJUDownloadPageURL}
  THEN fancyindex_Name
  ELSE IF u = USTCDownloadPageURL THEN autoindex_Name
  ELSE Empty

\* u, normalized, is a well-known URL.
WellKnown(u) == TableAdapter(SlashTerminated(TrimSpace(u))) # Empty

\* u decides the outcome of the resolution.
Decides(u) == Names(u) \/ WellKnown(u)

\* The default did not replace the candidates of the call.
Listed == ~(Len(res.arg) = 0 \/ (Len(res.arg) = 1 /\ res.arg[1] = Empty))

\* The index of the first candidate of the call that decides, 0 when none
\* does.
FirstDeciding ==
  IF \E i \in 1..Len(res.arg) : Decides(res.arg[i])
  THEN CHOOSE i \in 1..Len(res.arg) :
         Decides(res.arg[i]) /\ \A j \in 1..(i - 1) : ~Decides(res.arg[j])
  ELSE 0

\* The call constructed the adapter name over url, and nothing else: it
\* returned that adapter, or the error of its construction.
Constructed(name, url) ==
  /\ res.calls = <<[name |-> name, url |-> url]>>
  /\ \/ res.err = Nil /\ res.c = [name |-> name, url |-> url]
     \/ res.err.kind = "URLUnreachable" /\ res.err.what = url /\ res.c = NoCollector

\* C12, as stated: the first deciding candidate being a pair name|URL with
\* a known name and a non-empty URL, NewCollector constructs the adapter
\* of that name with that URL.
C12_PairVerbatim ==
  (res.op = "NewCollector" /\ Listed /\ FirstDeciding > 0) =>
    (IsPair(res.arg[FirstDeciding]) =>
       Constructed(NameOf(res.arg[FirstDeciding]), URLOf(res.arg[FirstDeciding])))

\* C12: the first deciding candidate being a pair name|URL with a known
\* name and a non-empty URL, NewCollector constructs the adapter of that
\* name with that URL ended by a slash, whichever adapter the table of
\* well-known URLs has for the URL.
C12_PairNormalized ==
  (res.op = "NewCollector" /\ Listed /\ FirstDeciding > 0) =>
    (IsPair(res.arg[FirstDeciding]) =>
       Constructed(NameOf(res.arg[FirstDeciding]),
                   SlashTerminated(URLOf(res.arg[FirstDeciding]))))

\* A pair whose name is not the adapter of the table for its URL, and whose
\* URL had no slash at its end, constructed the adapter of the name.
C12_Witness ==
  /\ res.op = "NewCollector"
  /\ res.arg = <<autoindex_Name \o Bar
                 \o Take(AliYunDownloadPageURL, Len(AliYunDownloadPageURL) - 1)>>
  /\ TableAdapter(res.calls[1].url) = fancyindex_Name
  /\ res.err = Nil
  /\ res.c = [name |-> autoindex_Name, url |-> AliYunDownloadPageURL]

\* C13: when no candidate of the call names one of the three adapters
\* before a bar or is, normalized, a well-known URL, NewCollector returns
\* CollectorNotFound and constructs no adapter; and the candidates that
\* name an unknown adapter or are no well-known URL are skipped: when a
\* candidate after them decides, an adapter is constructed and the error,
\* if any, is not CollectorNotFound.
C13_CollectorNotFound ==
  (res.op = "NewCollector" /\ Listed) =>
    IF FirstDeciding = 0
    THEN res.err = ErrCollectorNotFound /\ res.c = NoCollector /\ res.calls = <<>>
    ELSE Len(res.calls) = 1 /\ res.err # ErrCollectorNotFound

\* Two candidates, one with an unknown name before the bar and one that is
\* no well-known URL, gave CollectorNotFound.
C13_Witness ==
  /\ res.op = "NewCollector"
  /\ res.arg = <<Str_unknown \o Bar \o OfficialDownloadPageURL, Str_hello_world>>
  /\ res.err = ErrCollectorNotFound
  /\ res.c = NoCollector
  /\ res.calls = <<>>

\* The adapter and the URL that a deciding candidate stands for.
AdapterOf(u) ==
  IF Names(u) THEN NameOf(u) ELSE TableAdapter(SlashTerminated(TrimSpace(u)))

PageOf(u) ==
  IF Names(u) THEN SlashTerminated(URLOf(u)) ELSE SlashTerminated(TrimSpace(u))

\* C14: the first candidate, from the left, that names an adapter or is a
\* well-known URL decides the outcome: its adapter is the only one that is
\* constructed, and when its page cannot be fetched NewCollector returns
\* that error and no Collector, whatever the candidates after it are.
C14_FirstDecides ==
  (res.op = "NewCollector" /\ Listed /\ FirstDeciding > 0) =>
    LET u == res.arg[FirstDeciding]
    IN  /\ res.calls = <<[name |-> AdapterOf(u), url |-> PageOf(u)]>>
        /\ IF PageOf(u) \in res.down
           THEN res.err = NewURLUnreachableError(PageOf(u)) /\ res.c = NoCollector
           ELSE res.err = Nil /\ res.c = [name |-> AdapterOf(u), url |-> PageOf(u)]

\* The page of the first candidate could not be fetched, that of the second
\* could: the call returned the error of the first and constructed nothing
\* else.
C14_Witness ==
  /\ res.op = "NewCollector"
  /\ res.arg = <<OfficialDownloadPageURL, <<" ">> \o USTCDownloadPageURL \o <<" ">> >>
  /\ res.down = {OfficialDownloadPageURL}
  /\ res.err = NewURLUnreachableError(OfficialDownloadPageURL)
  /\ res.c = NoCollector
  /\ Len(res.calls) = 1

\* C15: called with no candidate, or with the empty string as the only
\* candidate, NewCollector constructs the official adapter over
\* https://go.dev/dl/.
C15_DefaultOfficial ==
  (res.op = "NewCollector" /\ ~Listed) =>
    /\ OfficialDownloadPageURL
         = <<"h", "t", "t", "p", "s", ":", "/", "/", "g", "o", ".", "d", "e", "v",
             "/", "d", "l", "/">>
    /\ Constructed(official_Name, OfficialDownloadPageURL)

\* The call with the empty string as its only candidate returned the
\* official adapter.
C15_Witness ==
  /\ res.op = "NewCollector"
  /\ res.arg = <<Empty>>
  /\ res.err = Nil
  /\ res.c = [name |-> official_Name, url |-> OfficialDownloadPageURL]

\* The candidates of the call, each trimmed and ended by a slash.
NormalForm == [i \in 1..Len(res.arg) |-> SlashTerminated(TrimSpace(res.arg[i]))]

\* C16: a call selects the same adapter, over the same URL and with the
\* same error, as the call with every candidate trimmed and ended by a
\* slash.
C16_NormalizationInvariant ==
  (res.op = "NewCollector" /\ Listed) =>
    LET n == NewCollector(NormalForm, res.down)
    IN  n.c = res.c /\ n.err = res.err /\ n.calls = res.calls

\* https://mirrors.aliyun.com/golang, without the slash at its end and
\* followed by a candidate with spaces around it, selected fancyindex.
C16_Witness ==
  /\ res.op = "NewCollector"
  /\ Len(res.arg) = 2
  /\ res.arg[1] = Take(AliYunDownloadPageURL, Len(AliYunDownloadPageURL) - 1)
  /\ res.arg[2] = <<" ">> \o USTCDownloadPageURL \o <<" ">>
  /\ res.arg # NormalForm
  /\ res.c = [name |-> fancyindex_Name, url |-> AliYunDownloadPageURL]
  /\ res.err = Nil

(***************************************************************************)
(* collector/internal: the decoder of the file names of a flat listing     *)
(***************************************************************************)

\* strings.TrimPrefix
TrimPrefix(s, p) == IF HasPrefix(s, p) THEN Drop(s, Len(p)) ELSE s

\* fmt.Sprintf("%s.%s", a, b)
Dotted(a, b) == a \o <<".">> \o b

\* What getGoVersion does: it returns a string, or panics with an index out
\* of range.
Returns(ver) == [panic |-> FALSE, ver |-> ver]

Panics == [panic |-> TRUE, ver |-> Empty]

\* getGoVersion after the split: arr[k][0] of an empty arr[k] is an index
\* out of range.
VersionOfParts(arr) ==
  IF Len(arr) < 3 THEN Returns(Empty)
  ELSE IF arr[1] = Empty THEN Panics
  ELSE IF arr[1][1] \notin DigitSet THEN Returns(Empty)
  ELSE IF arr[3] = Empty THEN Panics
  ELSE IF arr[3][1] \in DigitSet THEN Returns(Dotted(Dotted(arr[1], arr[2]), arr[3]))
  ELSE IF arr[2] = Empty THEN Panics
  ELSE IF arr[2][1] \in DigitSet THEN Returns(Dotted(arr[1], arr[2]))
  ELSE Returns(arr[1])

\* GoFileItem.getGoVersion
getGoVersion(FileName) == VersionOfParts(Split(TrimPrefix(FileName, Str_go), "."))

Str_sha256 == <<".", "s", "h", "a", "2", "5", "6">>

Str_zip == <<".", "z", "i", "p">>

Str_msi == <<".", "m", "s", "i">>

Str_src_tar_gz == <<".", "s", "r", "c">> \o Str_tar_gz

\* GoFileItem.isSHA256File
isSHA256File(FileName) == HasSuffix(FileName, Str_sha256)

\* GoFileItem.isPackageFile
isPackageFile(FileName) ==
  \/ HasSuffix(FileName, Str_tar_gz)
  \/ HasSuffix(FileName, Str_pkg)
  \/ HasSuffix(FileName, Str_zip)
  \/ HasSuffix(FileName, Str_msi)

\* A faulty variant of getKind: the rule of .tar.gz comes first.
getKindArchiveFirst(FileName) ==
  IF HasSuffix(FileName, Str_tar_gz) \/ HasSuffix(FileName, Str_zip) THEN ArchiveKind
  ELSE IF HasSuffix(FileName, Str_src_tar_gz) THEN SourceKind
  ELSE IF HasSuffix(FileName, Str_pkg) \/ HasSuffix(FileName, Str_msi) THEN InstallerKind
  ELSE <<"U", "n", "k", "n", "o", "w", "n">>

\* GoFileItem.getKind
getKind(FileName) ==
  IF HasSuffix(FileName, Str_src_tar_gz) THEN SourceKind
  ELSE IF HasSuffix(FileName, Str_tar_gz) \/ HasSuffix(FileName, Str_zip) THEN ArchiveKind
  ELSE IF HasSuffix(FileName, Str_pkg) \/ HasSuffix(FileName, Str_msi) THEN InstallerKind
  ELSE <<"U", "n", "k", "n", "o", "w", "n">>

\* The map osMapping, as the set of its entries <<key, value>>.
osMapping ==
  { <<<<"l", "i", "n", "u", "x">>,
      <<"L", "i", "n", "u", "x">>>>,
    <<<<"d", "a", "r", "w", "i", "n">>,
      <<"m", "a", "c", "O", "S">>>>,
    <<<<"w", "i", "n", "d", "o", "w", "s">>,
      <<"W", "i", "n", "d", "o", "w", "s">>>>,
    <<<<"f", "r", "e", "e", "b", "s", "d">>,
      <<"F", "r", "e", "e", "B", "S", "D">>>>,
    <<<<"n", "e", "t", "b", "s", "d">>,
      <<"n", "e", "t", "b", "s", "d">>>>,
    <<<<"o", "p", "e", "n", "b", "s", "d">>,
      <<"o", "p", "e", "n", "b", "s", "d">>>>,
    <<<<"s", "o", "l", "a", "r", "i", "s">>,
      <<"s", "o", "l", "a", "r", "i", "s">>>>,
    <<<<"p", "l", "a", "n", "9">>,
      <<"p", "l", "a", "n", "9">>>>,
    <<<<"a", "i", "x">>,
      <<"a", "i", "x">>>>,
    <<<<"d", "r", "a", "g", "o", "n", "f", "l", "y">>,
      <<"d", "r", "a", "g", "o", "n", "f", "l", "y">>>>,
    <<<<"i", "l", "l", "u", "m", "o", "s">>,
      <<"i", "l", "l", "u", "m", "o", "s">>>> }

\* The map archMapping, as the set of its entries <<key, value>>.
archMapping ==
  { <<<<"-", "3", "8", "6", ".">>,
      <<"x", "8", "6">>>>,
    <<<<"-", "a", "m", "d", "6", "4", ".">>,
      <<"x", "8", "6", "-", "6", "4">>>>,
    <<<<"-", "a", "r", "m", ".">>,
      <<"A", "R", "M", "v", "6">>>>,
    <<<<"-", "a", "r", "m", "6", "4", ".">>,
      <<"A", "R", "M", "6", "4">>>>,
    <<<<"-", "a", "r", "m", "v", "6", "l", ".">>,
      <<"A", "R", "M", "v", "6">>>>,
    <<<<"-", "p", "p", "c", "6", "4", ".">>,
      <<"p", "p", "c", "6", "4">>>>,
    <<<<"-", "p", "p", "c", "6", "4", "l", "e", ".">>,
      <<"p", "p", "c", "6", "4", "l", "e">>>>,
    <<<<"-", "m", "i", "p", "s", ".">>,
      <<"m", "i", "p", "s">>>>,
    <<<<"-", "m", "i", "p", "s", "l", "e", ".">>,
      <<"m", "i", "p", "s", "l", "e">>>>,
    <<<<"-", "m", "i", "p", "s", "6", "4", ".">>,
      <<"m", "i", "p", "s", "6", "4">>>>,
    <<<<"-", "m", "i", "p", "s", "6", "4", "l", "e", ".">>,
      <<"m", "i", "p", "s", "6", "4", "l", "e">>>>,
    <<<<"-", "s", "3", "9", "0", "x", ".">>,
      <<"s", "3", "9", "0", "x">>>>,
    <<<<"-", "r", "i", "s", "c", "v", "6", "4", ".">>,
      <<"r", "i", "s", "c", "v", "6", "4">>>>,
    <<<<"-", "l", "o", "o", "n", "g", "6", "4", ".">>,
      <<"l", "o", "o", "n", "g", "6", "4">>>> }

\* The values that the loop over a map can return for a file name: the
\* value of any key that the name contains, the order of the iteration
\* over a map being that of no order; the empty string when it contains no
\* key.
Lookup(mapping, FileName) ==
  IF \E e \in mapping : Contains(FileName, e[1])
  THEN {e[2] : e \in {x \in mapping : Contains(FileName, x[1])}}
  ELSE {Empty}

\* GoFileItem.getOS, GoFileItem.getArch: the values they can return.
getOS(FileName) == Lookup(osMapping, FileName)

getArch(FileName) == Lookup(archMapping, FileName)

\* checksum.SHA256
SHA256 == <<"S", "H", "A", "2", "5", "6">>

\* The Package that Convert2Versions makes of a package file, label being
\* what getOS and getArch returned for it.
PackageOf(pitem, label) ==
  [FileName |-> pitem.FileName, URL |-> pitem.URL, Kind |-> getKind(pitem.FileName),
   OS |-> label.OS, Arch |-> label.Arch, Size |-> pitem.Size,
   Checksum |-> Empty, ChecksumURL |-> Empty, Algorithm |-> Empty]

\* A faulty variant of WithChecksum: every package of the version gets the
\* URL of the checksum file.
WithChecksumAll(pkgs, pitem) ==
  [k \in 1..Len(pkgs) |->
     [pkgs[k] EXCEPT !.Algorithm = SHA256, !.ChecksumURL = pitem.URL]]

\* The loop over pkgMap[ver] for a checksum file: the packages whose file
\* name begins the name of pitem get its URL and the algorithm.
WithChecksum(pkgs, pitem) ==
  [k \in 1..Len(pkgs) |->
     IF HasPrefix(pitem.FileName, pkgs[k].FileName)
     THEN [pkgs[k] EXCEPT !.Algorithm = SHA256, !.ChecksumURL = pitem.URL]
     ELSE pkgs[k]]

\* pkgMap with the key ver, which it gets with no packages when it is
\* missing.
WithKey(pkgMap, ver) ==
  IF ver \in DOMAIN pkgMap THEN pkgMap ELSE pkgMap @@ (ver :> <<>>)

\* The body of the first loop of Convert2Versions for pitem, ver being its
\* version.
Grouped(pkgMap, pitem, label, ver) ==
  IF isPackageFile(pitem.FileName)
  THEN [WithKey(pkgMap, ver) EXCEPT ![ver] = Append(@, PackageOf(pitem, label))]
  ELSE IF isSHA256File(pitem.FileName)
  THEN [WithKey(pkgMap, ver) EXCEPT ![ver] = WithChecksum(@, pitem)]
  ELSE WithKey(pkgMap, ver)

\* What Convert2Versions does: it returns vers and err, or panics.
Converted(vers, err) == [panic |-> FALSE, vers |-> vers, err |-> err]

ConvertPanics == [panic |-> TRUE, vers |-> <<>>, err |-> Nil]

\* sort.Sort(version.Collection(vers)), by insertion.
RECURSIVE InsertVersion(_, _)
InsertVersion(s, x) ==
  IF s = <<>> THEN <<x>>
  ELSE IF LessThan(x.sv, s[Len(s)].sv)
       THEN Append(InsertVersion(Take(s, Len(s) - 1), x), s[Len(s)])
       ELSE Append(s, x)

RECURSIVE SortVersions(_)
SortVersions(items) ==
  IF items = <<>> THEN <<>>
  ELSE InsertVersion(SortVersions(Take(items, Len(items) - 1)), items[Len(items)])

RECURSIVE Group(_, _, _, _)

\* The first loop of Convert2Versions at the item i, gv being what
\* getGoVersion did for it.
GroupItem(items, labels, i, pkgMap, gv) ==
  IF gv.panic THEN [panic |-> TRUE, pkgMap |-> <<>>]
  ELSE Group(items, labels, i + 1, Grouped(pkgMap, items[i], labels[i], gv.ver))

\* The first loop of Convert2Versions from the item i on.
Group(items, labels, i, pkgMap) ==
  IF i > Len(items) THEN [panic |-> FALSE, pkgMap |-> pkgMap]
  ELSE GroupItem(items, labels, i, pkgMap, getGoVersion(items[i].FileName))

RECURSIVE Build(_, _, _, _)

\* A faulty variant of Built: a key whose Version cannot be constructed is
\* left out.
BuiltSkipping(pkgMap, order, k, vers, r) ==
  IF r.err # Nil THEN Build(pkgMap, order, k + 1, vers)
  ELSE Build(pkgMap, order, k + 1, Append(vers, r.v))

\* The body of the second loop after version.New returned r.
Built(pkgMap, order, k, vers, r) ==
  IF r.err # Nil THEN Converted(<<>>, r.err)
  ELSE Build(pkgMap, order, k + 1, Append(vers, r.v))

\* The second loop of Convert2Versions, over the keys of pkgMap in the
\* order of the iteration, from the k-th key on, and the sort after it.
Build(pkgMap, order, k, vers) ==
  IF k > Len(order) THEN Converted(SortVersions(vers), Nil)
  ELSE Built(pkgMap, order, k, vers, New(order[k], pkgMap[order[k]]))

\* The orders in which a loop over a map can visit the keys S.
Orders(S) ==
  {o \in [1..Cardinality(S) -> S] : \A i, j \in 1..Cardinality(S) : o[i] = o[j] => i = j}

\* What Convert2Versions can do after the first loop gave g.
ConvertGrouped(g) ==
  IF g.panic THEN {ConvertPanics}
  ELSE {Build(g.pkgMap, order, 1, <<>>) : order \in Orders(DOMAIN g.pkgMap)}

\* The labels that getOS and getArch can return for each item.
RECURSIVE Decodings(_)
Decodings(items) ==
  IF items = <<>> THEN {<<>>}
  ELSE {Append(l, [OS |-> o, Arch |-> a]) :
          l \in Decodings(Take(items, Len(items) - 1)),
          o \in getOS(items[Len(items)].FileName),
          a \in getArch(items[Len(items)].FileName)}

\* Convert2Versions(items): what it can do, for the orders in which the
\* loops over the maps can run.
Convert2Versions(items) ==
  UNION {ConvertGrouped(Group(items, labels, 1, <<>>)) : labels \in Decodings(items)}

\* The longest listing of the model.
MaxListing == 3

\* An item of the listing of a mirror: the link text, the URL of the mirror
\* with the link, and a size.
GoFileItem(FileName) ==
  [FileName |-> FileName, URL |-> AliYunDownloadPageURL \o FileName,
   Size |-> <<"6", "4", "M">>]

File_linux_tar_gz ==
  <<"g", "o", "1", ".", "2", "1", ".", "4", ".", "l", "i", "n", "u", "x",
    "-", "a", "m", "d", "6", "4", ".", "t", "a", "r", ".", "g", "z">>

File_linux_sha256 ==
  <<"g", "o", "1", ".", "2", "1", ".", "4", ".", "l", "i", "n", "u", "x",
    "-", "a", "m", "d", "6", "4", ".", "t", "a", "r", ".", "g", "z", ".",
    "s", "h", "a", "2", "5", "6">>

File_darwin_pkg ==
  <<"g", "o", "1", ".", "2", "1", ".", "4", ".", "d", "a", "r", "w", "i",
    "n", "-", "a", "r", "m", "6", "4", ".", "p", "k", "g">>

File_rc_src ==
  <<"g", "o", "1", ".", "2", "1", "r", "c", "2", ".", "s", "r", "c", ".",
    "t", "a", "r", ".", "g", "z">>

File_x ==
  <<"g", "o", "1", ".", "x", ".", "2", ".", "t", "a", "r", ".", "g", "z">>

File_golang ==
  <<"g", "o", "l", "a", "n", "g", ".", "t", "x", "t">>

File_empty_part ==
  <<"g", "o", "1", ".", "2", "1", ".", ".", "z", "i", "p">>

\* The file names of the listings of the model: a package and its checksum
\* file, a second package of the same version, a source package of a
\* release candidate, a name whose second part is no number, a name of
\* fewer than three parts and a name with an empty part.
ListedFiles ==
  {File_linux_tar_gz, File_linux_sha256, File_darwin_pkg, File_rc_src, File_x,
   File_golang, File_empty_part}

Listings == UNION {[1..n -> {GoFileItem(f) : f \in ListedFiles}] : n \in 0..MaxListing}

\* The parts of the file names that getGoVersion is applied to by itself.
Parts == {Empty, <<"1">>, <<"2", "1">>, <<"x">>, <<"4", "r", "c">>}

RECURSIVE Join(_)
Join(arr) == IF Len(arr) = 1 THEN arr[1] ELSE Dotted(Join(Take(arr, Len(arr) - 1)), arr[Len(arr)])

FileNames ==
  ListedFiles \cup {prefix \o Join(arr) : prefix \in {Str_go, Empty},
                                          arr \in UNION {[1..n -> Parts] : n \in 1..4}}

getGoVersionReturned(FileName, r) ==
  [op |-> "getGoVersion", arg |-> FileName, panic |-> r.panic, ver |-> r.ver]

getGoVersionAct ==
  /\ Idle
  /\ \E FileName \in FileNames :
       res' = getGoVersionReturned(FileName, getGoVersion(FileName))
  /\ UNCHANGED <<heap, given, vs, fdr, pc>>

Convert2VersionsReturned(items, r) ==
  [op |-> "Convert2Versions", arg |-> items, panic |-> r.panic,
   vers |-> r.vers, err |-> r.err]

Convert2VersionsAct ==
  /\ Idle
  /\ \E items \in Listings :
       \E r \in Convert2Versions(items) : res' = Convert2VersionsReturned(items, r)
  /\ UNCHANGED <<heap, given, vs, fdr, pc>>

NextConvert ==
  \/ getGoVersionAct
  \/ Convert2VersionsAct
  \/ ReturnAct

SpecConvert == Init /\ [][NextConvert]_vars

(***************************************************************************)
(* Properties of the decoder                                               *)
(***************************************************************************)

\* A part of a file name that begins with a digit.
DigitLed(part) == part # Empty /\ part[1] \in DigitSet

\* The longest run of at most three parts at the head of arr that each
\* begin with a digit, joined by dots; the empty string, for no version,
\* when arr has fewer than three parts or its first part begins with no
\* digit.
LeadingRun(arr) ==
  IF Len(arr) < 3 \/ ~DigitLed(arr[1]) THEN Empty
  ELSE IF ~DigitLed(arr[2]) THEN arr[1]
  ELSE IF ~DigitLed(arr[3]) THEN Dotted(arr[1], arr[2])
  ELSE Dotted(Dotted(arr[1], arr[2]), arr[3])

\* C17: getGoVersion returns the longest run of at most three parts at the
\* head of the file name, without its prefix go, that each begin with a
\* digit, and no version when the name has fewer than three parts or its
\* first part begins with no digit; so every part of the version it
\* returns begins with a digit.
C17_LeadingRun ==
  res.op = "getGoVersion" =>
    /\ ~res.panic
    /\ res.ver = LeadingRun(Split(TrimPrefix(res.arg, Str_go), "."))
    /\ res.ver # Empty => \A part \in Range(Split(res.ver, ".")) : DigitLed(part)

\* The version that Convert2Versions extracts from an item is no version.
NoVersionItem(pitem) ==
  /\ ~getGoVersion(pitem.FileName).panic
  /\ getGoVersion(pitem.FileName).ver = Empty

WithVersion(pitem) == ~NoVersionItem(pitem)

\* What the call of Convert2Versions did.
Outcome == [panic |-> res.panic, vers |-> res.vers, err |-> res.err]

\* C18: the items without a version are discarded: a conversion of a
\* listing returns what a conversion of the listing without them can
\* return, and does not fail because of them.
C18_NoVersionDiscarded ==
  (res.op = "Convert2Versions" /\ \E i \in 1..Len(res.arg) : NoVersionItem(res.arg[i])) =>
    Outcome \in Convert2Versions(SelectSeq(res.arg, WithVersion))

\* The indices of the package files of version ver in the listing of the
\* call, in the order of the listing.
PackageItems(ver) ==
  SelectSeq([i \in 1..Len(res.arg) |-> i],
            LAMBDA i : /\ isPackageFile(res.arg[i].FileName)
                       /\ getGoVersion(res.arg[i].FileName).ver = ver)

\* The checksum files among the items at positions of the listing that
\* have the version of the package file at i, and whose file name begins
\* with that of the package.
Sidecars(i, positions) ==
  {j \in positions :
     /\ isSHA256File(res.arg[j].FileName)
     /\ getGoVersion(res.arg[j].FileName).ver = getGoVersion(res.arg[i].FileName).ver
     /\ HasPrefix(res.arg[j].FileName, res.arg[i].FileName)}

\* The package pkg has its checksum URL and SHA256 from one of the items
\* at S, or neither when S is empty; it has no checksum value.
ChecksumFrom(pkg, S) ==
  /\ pkg.Checksum = Empty
  /\ IF S = {}
     THEN pkg.ChecksumURL = Empty /\ pkg.Algorithm = Empty
     ELSE pkg.Algorithm = SHA256 /\ pkg.ChecksumURL \in {res.arg[j].URL : j \in S}

\* C19, as stated: a package of a converted listing has the URL of a
\* checksum file and SHA256 if and only if the listing holds, anywhere, a
\* checksum file of the same version whose name begins with the file name
\* of the package.
C19_SidecarAnywhere ==
  (res.op = "Convert2Versions" /\ ~res.panic /\ res.err = Nil) =>
    \A v \in 1..Len(res.vers) :
      /\ Len(res.vers[v].pkgs) = Len(PackageItems(res.vers[v].name))
      /\ \A k \in 1..Len(res.vers[v].pkgs) :
           ChecksumFrom(res.vers[v].pkgs[k],
                        Sidecars(PackageItems(res.vers[v].name)[k], 1..Len(res.arg)))

\* C19: a package of a converted listing has the URL of a checksum file
\* and SHA256 if and only if the listing holds, after the package file, a
\* checksum file of the same version whose name begins with the file name
\* of the package; its checksum value is empty.
C19_SidecarAfterPackage ==
  (res.op = "Convert2Versions" /\ ~res.panic /\ res.err = Nil) =>
    \A v \in 1..Len(res.vers) :
      /\ Len(res.vers[v].pkgs) = Len(PackageItems(res.vers[v].name))
      /\ \A k \in 1..Len(res.vers[v].pkgs) :
           ChecksumFrom(res.vers[v].pkgs[k],
                        Sidecars(PackageItems(res.vers[v].name)[k],
                                 (PackageItems(res.vers[v].name)[k] + 1)..Len(res.arg)))

\* Of two packages of a version followed by the checksum file of the
\* first, the first got its URL and SHA256 and the second got neither.
C19_Witness ==
  /\ res.op = "Convert2Versions"
  /\ res.arg = <<GoFileItem(File_linux_tar_gz), GoFileItem(File_darwin_pkg),
                 GoFileItem(File_linux_sha256)>>
  /\ res.err = Nil
  /\ Len(res.vers) = 1
  /\ res.vers[1].pkgs[1].ChecksumURL = GoFileItem(File_linux_sha256).URL
  /\ res.vers[1].pkgs[1].Algorithm = SHA256
  /\ res.vers[1].pkgs[1].Checksum = Empty
  /\ res.vers[1].pkgs[2].ChecksumURL = Empty
  /\ res.vers[1].pkgs[2].Algorithm = Empty

\* The version strings that the call extracted from the items of its
\* listing.
Keys == {getGoVersion(res.arg[i].FileName).ver : i \in 1..Len(res.arg)}

\* C20: a conversion that does not panic returns exactly one Version for
\* each version string extracted from the listing, when a Version can be
\* constructed for each of them; when the construction fails for one of
\* them, it returns the error of a failed construction and no Version.
C20_OneVersionPerKey ==
  (res.op = "Convert2Versions" /\ ~res.panic) =>
    IF \A key \in Keys : New(key, <<>>).err = Nil
    THEN /\ res.err = Nil
         /\ Len(res.vers) = Cardinality(Keys)
         /\ {res.vers[v].name : v \in 1..Len(res.vers)} = Keys
    ELSE /\ res.vers = <<>>
         /\ res.err \in {New(key, <<>>).err : key \in Keys} \ {Nil}

\* A listing of a package of 1.21rc2 and a file whose version 1.x.2 is
\* malformed gave that error and no Version.
C20_Witness ==
  /\ res.op = "Convert2Versions"
  /\ res.arg = <<GoFileItem(File_rc_src), GoFileItem(File_x)>>
  /\ res.vers = <<>>
  /\ res.err = NewMalformedVersionError(<<"1", ".", "x", ".", "2">>)

(***************************************************************************)
(* collector/official: the read operations of the official adapter         *)
(***************************************************************************)

\* The most div elements of a download page of the model.
MaxDivs == 3

\* A div element of the download page: whether it has an id attribute, the
\* id, and the packages that findPackages reads from its table.
Div(vname) ==
  [ok |-> TRUE, id |-> Str_go \o vname,
   pkgs |-> <<Pkg(vname, Str_linux, Str_amd64, Str_tar_gz, ArchiveKind)>>]

DivWithoutId == [ok |-> FALSE, id |-> Empty, pkgs |-> <<>>]

Divs == {Div(V_1_20), Div(V_1_21_0), Div(V_1_21rc4), Div(V_voidint), DivWithoutId}

\* The download pages of the model: the divs between #stable and the next
\* section, those under #archive and those between #unstable and #archive.
Documents ==
  UNION {{[stable |-> Take(divs, c[1]), archive |-> Slice(divs, c[1] + 1, c[2]),
           unstable |-> Drop(divs, c[2])] :
            c \in {x \in (0..Len(divs)) \X (0..Len(divs)) : x[1] <= x[2]}} :
         divs \in UNION {[1..n -> Divs] : n \in 0..MaxDivs}}

\* What a read operation returns.
Read(items, err) == [items |-> items, err |-> err]

RECURSIVE EachWithBreak(_, _, _)

\* The callback of EachWithBreak after version.New returned r: false, with
\* err set, stops the walk.
EachNew(divs, k, items, r) ==
  IF r.err # Nil THEN Read(<<>>, r.err)
  ELSE EachWithBreak(divs, k + 1, Append(items, r.v))

\* The walk over the divs of a section from the k-th on, with the return of
\* the read operation after it: nil and err, or the sorted items.
EachWithBreak(divs, k, items) ==
  IF k > Len(divs) THEN Read(SortVersions(items), Nil)
  ELSE IF ~divs[k].ok THEN EachWithBreak(divs, k + 1, items)
  ELSE EachNew(divs, k, items, New(TrimPrefix(divs[k].id, Str_go), divs[k].pkgs))

\* Collector.StableVersions, Collector.UnstableVersions,
\* Collector.ArchivedVersions
StableVersions(doc) == EachWithBreak(doc.stable, 1, <<>>)

UnstableVersions(doc) == EachWithBreak(doc.unstable, 1, <<>>)

ArchivedVersions(doc) == EachWithBreak(doc.archive, 1, <<>>)

\* A faulty variant of AllOf: the three parts are not sorted as a whole.
AllOfUnsorted(stable, archives, unstables) ==
  IF stable.err # Nil THEN Read(<<>>, stable.err)
  ELSE IF archives.err # Nil THEN Read(<<>>, archives.err)
  ELSE IF unstables.err # Nil THEN Read(<<>>, unstables.err)
  ELSE Read(stable.items \o archives.items \o unstables.items, Nil)

\* Collector.AllVersions, given what the three other operations return.
AllOf(stable, archives, unstables) ==
  IF stable.err # Nil THEN Read(<<>>, stable.err)
  ELSE IF archives.err # Nil THEN Read(<<>>, archives.err)
  ELSE IF unstables.err # Nil THEN Read(<<>>, unstables.err)
  ELSE Read(SortVersions(stable.items \o archives.items \o unstables.items), Nil)

\* Collector.AllVersions
AllVersions(doc) ==
  AllOf(StableVersions(doc), ArchivedVersions(doc), UnstableVersions(doc))

ReadReturned(op, doc, r) ==
  [op |-> op, arg |-> doc, items |-> r.items, err |-> r.err]

StableVersionsAct ==
  /\ Idle
  /\ \E doc \in Documents :
       res' = ReadReturned("StableVersions", doc, StableVersions(doc))
  /\ UNCHANGED <<heap, given, vs, fdr, pc>>

UnstableVersionsAct ==
  /\ Idle
  /\ \E doc \in Documents :
       res' = ReadReturned("UnstableVersions", doc, UnstableVersions(doc))
  /\ UNCHANGED <<heap, given, vs, fdr, pc>>

ArchivedVersionsAct ==
  /\ Idle
  /\ \E doc \in Documents :
       res' = ReadReturned("ArchivedVersions", doc, ArchivedVersions(doc))
  /\ UNCHANGED <<heap, given, vs, fdr, pc>>

AllVersionsAct ==
  /\ Idle
  /\ \E doc \in Documents :
       res' = ReadReturned("AllVersions", doc, AllVersions(doc))
  /\ UNCHANGED <<heap, given, vs, fdr, pc>>

NextRead ==
  \/ StableVersionsAct
  \/ UnstableVersionsAct
  \/ ArchivedVersionsAct
  \/ AllVersionsAct
  \/ Convert2VersionsAct
  \/ ReturnAct

SpecRead == Init /\ [][NextRead]_vars

\* The items are in ascending order of their semantic versions.
Ascending(items) ==
  \A i, j \in 1..Len(items) : i < j => Compare(items[i].sv, items[j].sv) <= 0

\* How often x occurs in s.
Count(s, x) == Cardinality({i \in 1..Len(s) : s[i] = x})

\* The names of the divs of a section that have an id, without the prefix.
NamesOf(divs) ==
  [k \in 1..Len(SelectSeq(divs, LAMBDA d : d.ok)) |->
     TrimPrefix(SelectSeq(divs, LAMBDA d : d.ok)[k].id, Str_go)]

\* C21: what a read operation of a collector returns is in ascending order
\* of the semantic versions; AllVersions of the official adapter returns,
\* when it returns no error, exactly the versions of the stable, archived
\* and unstable divs, each as often as it is there.
C21_ReadsSorted ==
  /\ res.op \in {"StableVersions", "UnstableVersions", "ArchivedVersions",
                 "AllVersions"}
       => Ascending(res.items)
  /\ (res.op = "Convert2Versions" /\ ~res.panic) => Ascending(res.vers)
  /\ (res.op = "AllVersions" /\ res.err = Nil) =>
       LET names == NamesOf(res.arg.stable) \o NamesOf(res.arg.archive)
                      \o NamesOf(res.arg.unstable)
       IN  /\ Len(res.items) = Len(names)
           /\ \A k \in 1..Len(names) :
                Count([i \in 1..Len(res.items) |-> res.items[i].name], names[k])
                  = Count(names, names[k])

\* AllVersions put the stable 1.21.0, the archived 1.20 and the unstable
\* 1.21rc4 in the order 1.20, 1.21rc4, 1.21.0.
C21_Witness ==
  /\ res.op = "AllVersions"
  /\ res.arg = [stable |-> <<Div(V_1_21_0)>>, archive |-> <<Div(V_1_20)>>,
                unstable |-> <<Div(V_1_21rc4)>>]
  /\ res.err = Nil
  /\ [i \in 1..Len(res.items) |-> res.items[i].name] = <<V_1_20, V_1_21rc4, V_1_21_0>>

(***************************************************************************)
(* collector/internal: the decoding of OS and architecture                 *)
(***************************************************************************)

\* The file names that are decoded: go1.21.4. followed by nothing, a key of
\* osMapping or two of them, then by a dot, a key of archMapping or two of
\* them, then by tar.gz or pkg.
DecodedFiles ==
  {Str_go \o <<"1", ".", "2", "1", ".", "4", ".">> \o goos \o goarch \o ext :
     goos \in {e[1] : e \in osMapping}
                \cup {Empty, Str_linux \o <<"-">> \o Str_darwin},
     goarch \in {e[1] : e \in archMapping}
                  \cup {<<".">>, <<"-">> \o Str_amd64 \o <<".">> \o Str_darwin
                                   \o <<"-">> \o Str_arm64 \o <<".">>},
     ext \in {Tail(Str_tar_gz), Tail(Str_pkg)}}

\* What a decoding of a file name gives.
Decoded(goos, goarch) == [OS |-> goos, Arch |-> goarch]

\* A file name is decoded twice, as by two runs of the program: each call
\* of getOS and getArch walks its map in an order of its own.
DecodeAct ==
  /\ Idle
  /\ \E FileName \in DecodedFiles :
       \E os1 \in getOS(FileName), arch1 \in getArch(FileName),
          os2 \in getOS(FileName), arch2 \in getArch(FileName) :
         res' = [op |-> "decode", arg |-> FileName,
                 first |-> Decoded(os1, arch1), second |-> Decoded(os2, arch2)]
  /\ UNCHANGED <<heap, given, vs, fdr, pc>>

NextDecode ==
  \/ DecodeAct
  \/ ReturnAct

SpecDecode == Init /\ [][NextDecode]_vars

\* C22: two decodings of a file name give the same OS label and the same
\* architecture label.
C22_DecodingDeterministic ==
  res.op = "decode" => res.first = res.second

(***************************************************************************)
(* cli/ls.go                                                               *)
(***************************************************************************)

\* The names of the entries of a versions directory.
EntryNames == {V_1_20, V_1_20_1, V_1_21rc4, V_1_21_0, V_voidint}

\* What is at a path: nothing, a regular file, or a directory with entries
\* of distinct names, each a sub-directory or not.
Paths ==
  {[kind |-> "missing", entries |-> {}], [kind |-> "file", entries |-> {}]}
    \cup {[kind |-> "dir", entries |-> {[name |-> n, isDir |-> isDir[n]] : n \in names}] :
            names \in SUBSET EntryNames, isDir \in [EntryNames -> BOOLEAN]}

\* The *fs.PathError of os.ReadDir, wrapped by errors.WithStack.
PathError == [kind |-> "PathError", what |-> Empty, goos |-> Empty, goarch |-> Empty]

\* The entries in the order of os.ReadDir, sorted by file name.
RECURSIVE ByName(_)
ByName(entries) ==
  IF entries = {} THEN <<>>
  ELSE LET first == CHOOSE e \in entries :
                      \A o \in entries : ~StrLess(o.name, e.name)
       IN  <<first>> \o ByName(entries \ {first})

RECURSIVE ListFrom(_, _, _)

\* A faulty variant of ListNew: an entry whose name is no version ends the
\* listing with the error.
ListNewStops(dirs, k, items, r) ==
  IF r.err # Nil THEN Read(<<>>, r.err)
  ELSE ListFrom(dirs, k + 1, Append(items, r.v))

\* The loop body of listLocalVersions after version.New returned r.
ListNew(dirs, k, items, r) ==
  IF r.err # Nil THEN ListFrom(dirs, k + 1, items)
  ELSE ListFrom(dirs, k + 1, Append(items, r.v))

\* The loop of listLocalVersions from the k-th entry on, and the sort and
\* the return after it.
ListFrom(dirs, k, items) ==
  IF k > Len(dirs) THEN Read(SortVersions(items), Nil)
  ELSE IF ~dirs[k].isDir THEN ListFrom(dirs, k + 1, items)
  ELSE ListNew(dirs, k, items, New(dirs[k].name, <<>>))

\* listLocalVersions(dirPath), path being what is at dirPath.
listLocalVersions(path) ==
  IF path.kind # "dir" THEN Read(<<>>, PathError)
  ELSE ListFrom(ByName(path.entries), 1, <<>>)

listLocalVersionsAct ==
  /\ Idle
  /\ \E path \in Paths :
       res' = ReadReturned("listLocalVersions", path, listLocalVersions(path))
  /\ UNCHANGED <<heap, given, vs, fdr, pc>>

NextList ==
  \/ listLocalVersionsAct
  \/ ReturnAct

SpecList == Init /\ [][NextList]_vars

\* The names of the sub-directories at the path of the call that are
\* version names.
InstalledNames ==
  {e.name : e \in {x \in res.arg.entries : x.isDir /\ NewVersion(Hyphenate(x.name)).ok}}

\* C23: listLocalVersions on a directory returns, without error and in
\* ascending order, one Version for each sub-directory whose name is a
\* version name, and none for the regular files and the sub-directories of
\* other names; on a path that is missing or no directory it returns an
\* error and no Version.
C23_ListLocalVersions ==
  res.op = "listLocalVersions" =>
    IF res.arg.kind = "dir"
    THEN /\ res.err = Nil
         /\ Len(res.items) = Cardinality(InstalledNames)
         /\ {res.items[i].name : i \in 1..Len(res.items)} = InstalledNames
         /\ Ascending(res.items)
    ELSE res.err.kind = "PathError" /\ res.items = <<>>

\* A directory with the sub-directories 1.21.0, 1.21rc4, 1.20 and voidint
\* and the regular file 1.20.1 gave 1.20, 1.21rc4, 1.21.0.
C23_Witness ==
  /\ res.op = "listLocalVersions"
  /\ res.arg.kind = "dir"
  /\ res.arg.entries =
       {[name |-> V_1_21_0, isDir |-> TRUE], [name |-> V_1_21rc4, isDir |-> TRUE],
        [name |-> V_1_20, isDir |-> TRUE], [name |-> V_voidint, isDir |-> TRUE],
        [name |-> V_1_20_1, isDir |-> FALSE]}
  /\ res.err = Nil
  /\ [i \in 1..Len(res.items) |-> res.items[i].name] = <<V_1_20, V_1_21rc4, V_1_21_0>>

(***************************************************************************)
(* collector/internal: the kind of a file                                  *)
(***************************************************************************)

\* The file names whose kind is derived: a stem, then nothing or a suffix,
\* then nothing or a suffix.
KindFiles ==
  {stem \o mid \o ext :
     stem \in {Empty, Str_go \o V_1_20, Str_go \o V_1_21rc4,
               Str_go \o V_1_21_0 \o <<".">> \o Str_linux \o <<"-">> \o Str_amd64,
               Str_go \o V_1_21_0 \o <<".">> \o Str_darwin \o <<"-">> \o Str_arm64},
     mid \in {Empty, <<".", "s", "r", "c">>, Str_tar_gz, Str_pkg, Str_zip},
     ext \in {Empty, Str_tar_gz, Str_zip, Str_pkg, Str_msi, Str_sha256,
              <<".", "s", "r", "c">>, <<".", "g", "z">>, <<".", "t", "x", "t">>}}

getKindAct ==
  /\ Idle
  /\ \E FileName \in KindFiles :
       res' = [op |-> "getKind", arg |-> FileName, kind |-> getKind(FileName)]
  /\ UNCHANGED <<heap, given, vs, fdr, pc>>

NextKind ==
  \/ getKindAct
  \/ ReturnAct

SpecKind == Init /\ [][NextKind]_vars

\* The file name of the call ends in ext.
EndsIn(ext) ==
  /\ Len(res.arg) >= Len(ext)
  /\ \A k \in 1..Len(ext) : res.arg[Len(res.arg) - Len(ext) + k] = ext[k]

\* C24: the kind of a name that ends in .src.tar.gz is Source, that of
\* another name that ends in .tar.gz or .zip is Archive, that of a name
\* that ends in .pkg or .msi is Installer, and that of any other name is
\* Unknown.
C24_KindBySuffix ==
  res.op = "getKind" =>
    res.kind =
      IF EndsIn(<<".", "s", "r", "c", ".", "t", "a", "r", ".", "g", "z">>)
      THEN <<"S", "o", "u", "r", "c", "e">>
      ELSE IF EndsIn(<<".", "t", "a", "r", ".", "g", "z">>) \/ EndsIn(<<".", "z", "i", "p">>)
      THEN <<"A", "r", "c", "h", "i", "v", "e">>
      ELSE IF EndsIn(<<".", "p", "k", "g">>) \/ EndsIn(<<".", "m", "s", "i">>)
      THEN <<"I", "n", "s", "t", "a", "l", "l", "e", "r">>
      ELSE <<"U", "n", "k", "n", "o", "w", "n">>

\* go1.21rc4.src.tar.gz, which also ends in .tar.gz, is Source.
C24_Witness ==
  /\ res.op = "getKind"
  /\ res.arg = Str_go \o V_1_21rc4 \o <<".", "s", "r", "c">> \o Str_tar_gz
  /\ res.kind = SourceKind

(***************************************************************************)
(* Properties of Semantify                                                 *)
(***************************************************************************)

\* The 0-based positions at which token occurs in the name of the call.
Occurrences(token) ==
  {i \in 0..(Len(res.arg) - Len(token)) :
     \A k \in 1..Len(token) : res.arg[i + k] = token[k]}

\* The least member of a non-empty set of numbers.
Least(S) == CHOOSE i \in S : \A j \in S : i <= j

\* The position before which the hyphen goes: the first occurrence of
\* alpha if there is one, otherwise that of beta, otherwise that of rc; 0,
\* for no hyphen, when none of them occurs.
HyphenAt ==
  IF Occurrences(<<"a", "l", "p", "h", "a">>) # {}
  THEN Least(Occurrences(<<"a", "l", "p", "h", "a">>))
  ELSE IF Occurrences(<<"b", "e", "t", "a">>) # {}
  THEN Least(Occurrences(<<"b", "e", "t", "a">>))
  ELSE IF Occurrences(<<"r", "c">>) # {} THEN Least(Occurrences(<<"r", "c">>))
  ELSE 0

\* The name of the call with a hyphen before that position, and unchanged
\* when the position is 0.
Hyphenated ==
  IF HyphenAt = 0 THEN res.arg
  ELSE [i \in 1..(Len(res.arg) + 1) |->
          IF i <= HyphenAt THEN res.arg[i]
          ELSE IF i = HyphenAt + 1 THEN "-"
          ELSE res.arg[i - 1]]

\* C25: the semantic version of a Version is that of its name with one
\* hyphen before the first alpha, otherwise before the first beta,
\* otherwise before the first rc, and of the name itself when the token is
\* missing or begins the name; when that string is no semantic version,
\* New fails with it as the malformed version.
C25_OneHyphen ==
  res.op = "version.New" =>
    IF NewVersion(Hyphenated).ok
    THEN res.err = Nil /\ res.v.sv = NewVersion(Hyphenated)
    ELSE res.err = NewMalformedVersionError(Hyphenated)

\* 1.21rc1 got the semantic version of 1.21-rc1.
C25_Witness ==
  /\ res.op = "version.New"
  /\ res.arg = <<"1", ".", "2", "1", "r", "c", "1">>
  /\ Hyphenated = <<"1", ".", "2", "1", "-", "r", "c", "1">>
  /\ res.err = Nil
  /\ res.v.sv = NewVersion(<<"1", ".", "2", "1", "-", "r", "c", "1">>)
  /\ res.v.sv.pre # NoVersion.pre

(***************************************************************************)
(* version/version.go: FindPackages on the packages of a version           *)
(***************************************************************************)

\* The longest package list of a version of the model.
MaxPackages == 2

\* The packages that a version named name is given: archives and an
\* installer for two platforms, an archive whose kind is written in lower
\* case, and an archive of another version.
PackagesFor(name) ==
  { Pkg(name, Str_linux, Str_amd64, Str_tar_gz, ArchiveKind),
    Pkg(name, Str_linux, Str_amd64, Str_zip, <<"a", "r", "c", "h", "i", "v", "e">>),
    Pkg(name, Str_linux, Str_amd64, Str_pkg, InstallerKind),
    Pkg(name, Str_darwin, Str_arm64, Str_tar_gz, ArchiveKind),
    Pkg(name, Str_darwin, Str_arm64, Str_pkg, InstallerKind),
    Pkg(name \o <<".", "1">>, Str_linux, Str_amd64, Str_tar_gz, ArchiveKind) }

\* The kinds, systems and architectures that are asked for.
Requests ==
  [kind : {ArchiveKind, InstallerKind, <<"i", "n", "s", "t", "a", "l", "l", "e", "r">>},
   goos : {Str_linux, Str_darwin}, goarch : {Str_amd64, Str_arm64}]

FindPackagesReturned(v, t, r) ==
  [op |-> "Version.FindPackages", v |-> v, kind |-> t.kind, goos |-> t.goos,
   goarch |-> t.goarch, pkgs |-> r.pkgs, err |-> r.err]

\* v.FindPackages(kind, goos, goarch) on a version made by New with a list
\* of packages.
FindPackagesOfAct ==
  /\ Idle
  /\ \E name \in {V_1_20, V_1_21rc4}, t \in Requests :
       \E pkgs \in UNION {[1..n -> PackagesFor(name)] : n \in 0..MaxPackages} :
         \E v \in {New(name, pkgs).v} :
           res' = FindPackagesReturned(v, t, FindPackages(v, t.kind, t.goos, t.goarch))
  /\ UNCHANGED <<heap, given, vs, fdr, pc>>

NextPackages ==
  \/ FindPackagesOfAct
  \/ ReturnAct

SpecPackages == Init /\ [][NextPackages]_vars

\* A package of the version of the call is of the kind asked for, whatever
\* the case of the letters, and its file name begins with go, the name of
\* the version, a dot, the system, a hyphen and the architecture.
Wanted(pkg) ==
  /\ [i \in 1..Len(pkg.Kind) |-> ToLower(pkg.Kind[i])]
       = [i \in 1..Len(res.kind) |-> ToLower(res.kind[i])]
  /\ HasPrefix(pkg.FileName,
               <<"g", "o">> \o res.v.name \o <<".">> \o res.goos \o <<"-">> \o res.goarch)

\* C26: FindPackages returns the packages of the version that are wanted,
\* each as often as it is in the list and in the order of the list; when
\* there is none it returns no package and PackageNotFound for the kind,
\* the system and the architecture.
C26_FindPackages ==
  res.op = "Version.FindPackages" =>
    IF SelectSeq(res.v.pkgs, Wanted) # <<>>
    THEN res.err = Nil /\ res.pkgs = SelectSeq(res.v.pkgs, Wanted)
    ELSE /\ res.pkgs = <<>>
         /\ res.err = NewPackageNotFoundError(res.kind, res.goos, res.goarch)

\* The same archive twice in the list of 1.20 came back twice, for a kind
\* asked for in another case.
C26_Witness ==
  /\ res.op = "Version.FindPackages"
  /\ res.v.name = V_1_20
  /\ res.kind = ArchiveKind
  /\ res.v.pkgs = <<Pkg(V_1_20, Str_linux, Str_amd64, Str_zip,
                        <<"a", "r", "c", "h", "i", "v", "e">>),
                    Pkg(V_1_20, Str_linux, Str_amd64, Str_zip,
                        <<"a", "r", "c", "h", "i", "v", "e">>)>>
  /\ res.pkgs = res.v.pkgs
  /\ res.err = Nil

(***************************************************************************)
(* Find followed by FindPackages                                           *)
(***************************************************************************)

\* C27: a version returned by Find has at least one package of the kind,
\* the system and the architecture of the finder, so that FindPackages on
\* it with these three succeeds.
C27_FoundHasPackages ==
  (res.op = "Find" /\ res.err = Nil) =>
    /\ FindPackages(heap[res.v], fdr.kind, fdr.goos, fdr.goarch).err = Nil
    /\ FindPackages(heap[res.v], fdr.kind, fdr.goos, fdr.goarch).pkgs # <<>>

(***************************************************************************)
(* cli/install.go: a run of the install command                            *)
(***************************************************************************)

\* checksum.SHA1
SHA1 == <<"S", "H", "A", "1">>

\* errs.ErrUnsupportedChecksumAlgorithm
ErrUnsupportedChecksumAlgorithm ==
  [kind |-> "UnsupportedChecksumAlgorithm", what |-> Empty, goos |-> Empty,
   goarch |-> Empty]

\* errs.ErrChecksumNotMatched
ErrChecksumNotMatched ==
  [kind |-> "ChecksumNotMatched", what |-> Empty, goos |-> Empty, goarch |-> Empty]

\* errs.NewDownloadError(url, err)
NewDownloadError(url) ==
  [kind |-> "Download", what |-> url, goos |-> Empty, goarch |-> Empty]

\* The error of a menu that could not be run, and of a file operation that
\* failed.
MenuError == [kind |-> "Menu", what |-> Empty, goos |-> Empty, goarch |-> Empty]

FileError(what) == [kind |-> "File", what |-> what, goos |-> Empty, goarch |-> Empty]

\* The checksum of a file content under an algorithm, as the hexadecimal
\* string is compared: one string for each algorithm and content.
Digest(algo, content) == algo \o <<":", content>>

\* checksum.VerifyFile(algo, expected, filename), content being what the
\* file holds.
VerifyFile(algo, expected, content) ==
  IF Digest(algo, content) = expected THEN Nil ELSE ErrChecksumNotMatched

\* The URL of a package and of its checksum.
PackageURL == <<"u">>

SumURL == <<"u", ".", "s", "u", "m">>

\* The contents that the package file can have; the first is the content
\* that was published.
Contents == {"c1", "c2"}

\* What a GET of the checksum URL gives: a transport error, or the bytes
\* of the body.
Fetches ==
  {[ok |-> FALSE, data |-> Empty]}
    \cup {[ok |-> TRUE, data |-> Digest(SHA256, c)] : c \in Contents}

\* pkg.Checksum after the first lines of VerifyChecksum: the checksum that
\* was fetched from the checksum URL when the package had none.
ChecksumOf(pkg, fetched) ==
  IF pkg.Checksum = Empty /\ pkg.ChecksumURL # Empty /\ fetched.ok
  THEN fetched.data
  ELSE pkg.Checksum

\* pkg.VerifyChecksum(filename): the error that is returned.
VerifyChecksum(pkg, fetched, content) ==
  IF pkg.Checksum = Empty /\ pkg.ChecksumURL # Empty /\ ~fetched.ok
  THEN NewDownloadError(pkg.ChecksumURL)
  ELSE IF pkg.Algorithm \notin {SHA256, SHA1}
       THEN ErrUnsupportedChecksumAlgorithm
       ELSE VerifyFile(pkg.Algorithm, ChecksumOf(pkg, fetched), content)

\* The packages that a run chooses among.
InstallPackages ==
  [Checksum : {Empty, Digest(SHA256, "c1")}, ChecksumURL : {Empty, SumURL},
   Algorithm : {SHA256, SHA1, Empty}]

\* A run of install after a package was chosen: the package, the
\* skip-checksum and nouse options, the variable skipChecksum, what the file
\* of the package in the downloads directory holds (none when there is no
\* such file), what the run did so far, and its error.
Started(pkg, flag, nouse, file) ==
  [op |-> "install", pc |-> "checksum", pkg |-> pkg, flag |-> flag,
   nouse |-> nouse, skipChecksum |-> flag, file |-> file, log |-> <<>>,
   err |-> Nil]

\* return cli.Exit(errstring(err), 1)
Exited(run, err) == [run EXCEPT !.pc = "done", !.err = err]

Logged(run, event) == [run EXCEPT !.log = Append(@, event)]

At(run, pc_) == [run EXCEPT !.pc = pc_]

\* A faulty variant of Prompted: the run goes on after the answer no.
PromptedGoesOn(run, answer) ==
  IF run.skipChecksum \/ run.pkg.Checksum # Empty \/ run.pkg.ChecksumURL # Empty
  THEN At(run, "fetch")
  ELSE IF answer = "error" THEN Exited(run, MenuError)
  ELSE IF answer = "yes"
       THEN At(Logged([run EXCEPT !.skipChecksum = TRUE], "yes"), "fetch")
       ELSE At(Logged(run, "no"), "fetch")

\* The question about a package without a checksum, answer being what the
\* menu gave.
Prompted(run, answer) ==
  IF run.skipChecksum \/ run.pkg.Checksum # Empty \/ run.pkg.ChecksumURL # Empty
  THEN At(run, "fetch")
  ELSE IF answer = "error" THEN Exited(run, MenuError)
  ELSE IF answer = "yes"
       THEN At(Logged([run EXCEPT !.skipChecksum = TRUE], "yes"), "fetch")
       ELSE At(Logged(run, "no"), "done")

\* A faulty variant of Checked: the run goes on whatever VerifyChecksum
\* returned.
CheckedAnyway(run, fetched, remove) ==
  At(Logged([run EXCEPT !.pkg.Checksum = ChecksumOf(run.pkg, fetched)], "verified"),
     "unarchive")

\* The verification of the file of the package, which is removed after a
\* failure when remove is set.
Checked(run, fetched, remove) ==
  IF run.skipChecksum THEN At(run, "unarchive")
  ELSE IF VerifyChecksum(run.pkg, fetched, run.file) # Nil
       THEN Exited(
              Logged([run EXCEPT !.pkg.Checksum = ChecksumOf(run.pkg, fetched),
                                 !.file = IF remove THEN "none" ELSE @],
                     "rejected"),
              VerifyChecksum(run.pkg, fetched, run.file))
       ELSE At(Logged([run EXCEPT !.pkg.Checksum = ChecksumOf(run.pkg, fetched)],
                      "verified"),
               "unarchive")

\* What pkg.DownloadWithProgress can do: write a content to the file, fail
\* before the file is opened, or fail while the body is copied.
Downloads == Contents \cup {"refused", "cut"}

\* The file of the package is looked for, downloaded when it is not there,
\* and verified.
Fetched(run, d, fetched) ==
  IF run.file = "none"
  THEN IF d = "refused" THEN Exited(run, NewDownloadError(PackageURL))
       ELSE IF d = "cut"
       THEN Exited(Logged([run EXCEPT !.file = "part"], "download"),
                   NewDownloadError(PackageURL))
       ELSE Checked(Logged([run EXCEPT !.file = d], "download"), fetched, FALSE)
  ELSE Checked(run, fetched, TRUE)

\* archiver.Unarchive and the renaming of the directory that it made.
Unarchived(run, outcome) ==
  IF outcome = "ok"
  THEN At(Logged(run, "extract"), "switch")
  ELSE Exited(IF outcome = "rename" THEN Logged(run, "extract") ELSE run,
              FileError(outcome))

\* The end of install: switchVersion unless nouse was given.
Switched(run, outcome) ==
  IF run.nouse THEN At(run, "done")
  ELSE IF outcome = "ok" THEN At(Logged(run, "switch"), "done")
  ELSE Exited(run, FileError(outcome))

\* install, to the point where a package is chosen: the run ends there with
\* an error, or goes on with the package.
InstallAct ==
  /\ Idle
  /\ \E pkg \in InstallPackages, flag \in BOOLEAN, nouse \in BOOLEAN,
        file \in {"none"} \cup Contents, early \in BOOLEAN :
       res' = IF early
              THEN Exited(Started(pkg, flag, nouse, file),
                          NewPackageNotFoundError(ArchiveKind, Str_linux, Str_amd64))
              ELSE Started(pkg, flag, nouse, file)
  /\ UNCHANGED <<heap, given, vs, fdr, pc>>

InstallChecksumAct ==
  /\ res.op = "install"
  /\ res.pc = "checksum"
  /\ \E answer \in {"yes", "no", "error"} : res' = Prompted(res, answer)
  /\ UNCHANGED <<heap, given, vs, fdr, pc>>

InstallFetchAct ==
  /\ res.op = "install"
  /\ res.pc = "fetch"
  /\ \E d \in Downloads, fetched \in Fetches : res' = Fetched(res, d, fetched)
  /\ UNCHANGED <<heap, given, vs, fdr, pc>>

InstallUnarchiveAct ==
  /\ res.op = "install"
  /\ res.pc = "unarchive"
  /\ \E outcome \in {"ok", "unarchive", "rename"} : res' = Unarchived(res, outcome)
  /\ UNCHANGED <<heap, given, vs, fdr, pc>>

InstallSwitchAct ==
  /\ res.op = "install"
  /\ res.pc = "switch"
  /\ \E outcome \in {"ok", "symlink"} : res' = Switched(res, outcome)
  /\ UNCHANGED <<heap, given, vs, fdr, pc>>

\* The run is over.
InstallDoneAct ==
  /\ res.op = "install"
  /\ res.pc = "done"
  /\ ReturnAct

NextInstall ==
  \/ InstallAct
  \/ InstallChecksumAct
  \/ InstallFetchAct
  \/ InstallUnarchiveAct
  \/ InstallSwitchAct
  \/ InstallDoneAct

SpecInstall == Init /\ [][NextInstall]_vars

(***************************************************************************)
(* Properties of install                                                   *)
(***************************************************************************)

\* The run did event, before the i-th thing that it did.
DidBefore(event, i) == \E j \in 1..(i - 1) : res.log[j] = event

Did(event) == \E j \in 1..Len(res.log) : res.log[j] = event

\* C28: the archive is extracted only after its checksum was verified in
\* the run, the file holding what the checksum of the package says, or
\* after the skip-checksum flag was given, or after the answer yes for a
\* package without checksum and checksum URL; after the answer no the run
\* is over and has neither downloaded, extracted nor switched.
C28_ExtractAfterVerify ==
  res.op = "install" =>
    /\ \A i \in 1..Len(res.log) :
         res.log[i] = "extract" =>
           \/ /\ DidBefore("verified", i)
              /\ res.pkg.Checksum # Empty
              /\ Digest(res.pkg.Algorithm, res.file) = res.pkg.Checksum
           \/ res.flag
           \/ /\ DidBefore("yes", i)
              /\ res.pkg.Checksum = Empty
              /\ res.pkg.ChecksumURL = Empty
    /\ Did("no") =>
         /\ res.pc = "done"
         /\ ~Did("download") /\ ~Did("extract") /\ ~Did("switch")

\* A run downloaded the archive, verified it with a checksum fetched from
\* the checksum URL, extracted it and switched to the version.
C28_Witness ==
  /\ res.op = "install"
  /\ ~res.flag
  /\ res.log = <<"download", "verified", "extract", "switch">>
  /\ res.pkg.ChecksumURL = SumURL
  /\ res.pkg.Checksum = Digest(SHA256, "c1")
  /\ res.file = "c1"

\* C29: after a run that ended because the archive did not have the
\* checksum of the package, the downloads directory has no file of the
\* package, whether the run downloaded the file or found it.
C29_RejectedRemoved ==
  (res.op = "install" /\ res.pc = "done" /\ res.err = ErrChecksumNotMatched)
    => res.file = "none"

(***************************************************************************)
(* The packages of the versions of a flat index                            *)
(***************************************************************************)

\* C30: every Version that a conversion returns has at least one package,
\* and each of its packages has the kind Source, Archive or Installer.
C30_VersionsHavePackages ==
  res.op = "Convert2Versions" =>
    \A v \in 1..Len(res.vers) :
      /\ res.vers[v].pkgs # <<>>
      /\ \A p \in 1..Len(res.vers[v].pkgs) :
           res.vers[v].pkgs[p].Kind \in {SourceKind, ArchiveKind, InstallerKind}

=============================================================================
